---- MODULE Spec2Model ----
(***************************************************************************)
(* Element-local residual evaluation of the box scheme                     *)
(* (dumux/boxmodels/common/boxlocalresidual.hh, class BoxLocalResidual).   *)
(*                                                                         *)
(* Scalars are modelled as integers (exact arithmetic).  Indices are       *)
(* 1-based: sub-control volume i of the model is vertex i-1 of the code.   *)
(* The quotient volume / timeStepSize is the integer quotient; all         *)
(* volumes of the grid below are multiples of every time step size used.   *)
(***************************************************************************)
EXTENDS Integers, Sequences, FiniteSets, TLC

\* number of balance equations (GET_PROP_VALUE(TypeTag, PTAG(NumEq)))
numEq == 2

\* largest value of a primary variable of the current solution
MaxScalar == 1

Eqs == 1..numEq
Scalars == 0..MaxScalar

\* time step sizes problem_().timeManager().timeStepSize() may return
TimeStepSizes == {1, 2}

\* values an entry of the residual vector may hold right after resize()
\* created it (Dune::BlockVector::resize does not initialise new blocks)
Garbage == {-7, 5}

----------------------------------------------------------------------------
(* PrimaryVariables: Dune::FieldVector<Scalar, numEq>                      *)

ZeroVec == [eq \in Eqs |-> 0]
VecAdd(a, b) == [eq \in Eqs |-> a[eq] + b[eq]]
VecSub(a, b) == [eq \in Eqs |-> a[eq] - b[eq]]
VecScale(a, s) == [eq \in Eqs |-> a[eq] * s]

----------------------------------------------------------------------------
(* The grid: three elements of a two-dimensional mixed grid.               *)
(*   1: triangle, no face on the boundary                                  *)
(*   2: triangle, face 1 on the boundary                                   *)
(*   3: quadrilateral, faces 1 and 3 on the boundary (corner cell)         *)

Elements == {1, 2, 3}

IsTriangle(e) == e \in {1, 2}

\* vertices of face faceIdx of the reference element (Dune numbering, 1-based)
refElemSubEntity(e, faceIdx, faceVertIdx) ==
    IF IsTriangle(e)
    THEN << <<1, 2>>, <<1, 3>>, <<2, 3>> >>[faceIdx][faceVertIdx]
    ELSE << <<1, 3>>, <<2, 4>>, <<1, 2>>, <<3, 4>> >>[faceIdx][faceVertIdx]

\* number of vertices of a face: refElem.size(faceIdx, 1, dim)
refElemSize(e, faceIdx) == 2

\* the faces of element e which lie on the boundary of the grid
BoundaryFacesOf(e) ==
    CASE e = 1 -> {}
      [] e = 2 -> {1}
      [] e = 3 -> {1, 3}

\* the intersections gridView_().ibegin(elem) .. iend(elem) visits
Intersections(e) ==
    [f \in 1..(IF IsTriangle(e) THEN 3 ELSE 4) |->
        [boundary |-> f \in BoundaryFacesOf(e), indexInInside |-> f]]

\* const Element &: the element handed to an entry point
Element(e) == [id |-> e, intersections |-> Intersections(e)]

\* FVElementGeometry::boundaryFaceIndex(face, vertInFace)
boundaryFaceIndex(faceIdx, faceVertIdx) == (faceIdx - 1) * 2 + faceVertIdx

\* FVElementGeometry::update(gridView, element)
FVElementGeometry(e) ==
    IF IsTriangle(e)
    THEN [numVertices |-> 3,
          numEdges |-> 3,
          subContVolFace |-> << [i |-> 1, j |-> 2], [i |-> 1, j |-> 3],
                                [i |-> 2, j |-> 3] >>,
          subContVol |-> << [volume |-> 2], [volume |-> 4], [volume |-> 2] >>,
          boundaryFace |-> [b \in 1..6 |-> [area |-> 1 + ((b - 1) \div 2)]]]
    ELSE [numVertices |-> 4,
          numEdges |-> 4,
          subContVolFace |-> << [i |-> 1, j |-> 3], [i |-> 2, j |-> 4],
                                [i |-> 1, j |-> 2], [i |-> 3, j |-> 4] >>,
          subContVol |-> << [volume |-> 2], [volume |-> 2],
                            [volume |-> 4], [volume |-> 6] >>,
          boundaryFace |-> [b \in 1..8 |-> [area |-> 1 + ((b - 1) \div 2)]]]

----------------------------------------------------------------------------
(* BoundaryTypes of one sub-control volume and ElementBoundaryTypes        *)

\* BoundaryTypes after reset(): no condition on any equation
BTNone ==
    [isDirichlet |-> [eq \in Eqs |-> FALSE],
     isNeumann |-> [eq \in Eqs |-> FALSE],
     eq2pvIdx |-> [eq \in Eqs |-> eq]]

\* kinds is a sequence of "D" / "N" per equation, pv the primary variable
\* index a Dirichlet equation is coupled to (BoundaryTypes::setDirichlet)
BT(kinds, pv) ==
    [isDirichlet |-> [eq \in Eqs |-> kinds[eq] = "D"],
     isNeumann |-> [eq \in Eqs |-> kinds[eq] = "N"],
     eq2pvIdx |-> [eq \in Eqs |-> pv[eq]]]

\* BoundaryTypes::hasDirichlet / hasNeumann / isDirichlet / eqToDirichletIndex
BTHasDirichlet(bt) == \E eq \in Eqs : bt.isDirichlet[eq]
BTHasNeumann(bt) == \E eq \in Eqs : bt.isNeumann[eq]
eqToDirichletIndex(bt, eqIdx) == bt.eq2pvIdx[eqIdx]

\* ElementBoundaryTypes::update(problem, element, fvGeom): the boundary
\* types the problem declares for the vertices of element e
ElementBoundaryTypes(e) ==
    CASE e = 1 -> << BTNone, BTNone, BTNone >>
      [] e = 2 -> << BT(<<"D", "N">>, <<2, 2>>), BT(<<"N", "N">>, <<1, 2>>),
                     BTNone >>
      [] e = 3 -> << BT(<<"N", "N">>, <<1, 2>>), BT(<<"D", "D">>, <<2, 1>>),
                     BT(<<"N", "D">>, <<1, 2>>), BTNone >>

\* ElementBoundaryTypes::hasDirichlet / hasNeumann
hasDirichlet(bcTypes) == \E i \in 1..Len(bcTypes) : BTHasDirichlet(bcTypes[i])
hasNeumann(bcTypes) == \E i \in 1..Len(bcTypes) : BTHasNeumann(bcTypes[i])

----------------------------------------------------------------------------
(* The problem: boundary values and sources                                *)

\* problem.dirichlet(values, vertex) for vertex i of element e
problemDirichlet(e, i) == [pv \in Eqs |-> 3 * i + pv + e]

\* problem.neumann(values, elem, fvGeom, is, scvIdx, boundaryFaceIdx)
problemNeumann(e, faceIdx, scvIdx, boundaryFaceIdx) ==
    [eq \in Eqs |-> IF eq = 1 THEN boundaryFaceIdx + scvIdx ELSE 0 - faceIdx]

\* the source the problem prescribes for sub-control volume i of element e
problemSource(e, i) == [eq \in Eqs |-> ((i + eq + e) % 3) - 1]

----------------------------------------------------------------------------
(* VolumeVariables and ElementVolumeVariables                              *)

\* The volume variables of one sub-control volume: its primary variables
\* and the secondary quantities the physical model derives from them.
VolumeVariables(priVars) ==
    [priVars |-> priVars,
     storage |-> [eq \in Eqs |-> (eq + 1) * priVars[eq]],
     mobility |-> 1 + priVars[1]]

\* ElementVolumeVariables::update(problem, element, fvGeom, false): the
\* current solution at the n vertices of an element
CurVolVarsSet(n) ==
    { [i \in 1..n |-> VolumeVariables([eq \in Eqs |-> p[eq] + i - 1])] :
        p \in [Eqs -> Scalars] }

\* ElementVolumeVariables::update(problem, element, fvGeom, true): the
\* solution of the previous time step
PrevVolVarsSet(n) ==
    { [i \in 1..n |-> VolumeVariables([eq \in Eqs |-> q * eq])] :
        q \in {0, 1} }

----------------------------------------------------------------------------
(* The state of the evaluator and of the problem it was initialised with   *)

VARIABLES
    residual_,        \* ElementSolutionVector residual_
    elemPtr_,         \* const Element *elemPtr_
    fvElemGeomPtr_,   \* const FVElementGeometry *fvElemGeomPtr_
    prevVolVarsPtr_,  \* const ElementVolumeVariables *prevVolVarsPtr_
    curVolVarsPtr_,   \* const ElementVolumeVariables *curVolVarsPtr_
    bcTypesPtr_,      \* const ElementBoundaryTypes *bcTypesPtr_
    problem,          \* *problemPtr_: the coupling parameters of the problem
    lastCall,         \* history: the entry point called last, the time
                      \*          step size it saw, the size of residual_ it
                      \*          found, and whether the call before it was
                      \*          the same call with the same inputs
    log,              \* history: the passes the last call ran, in order,
                      \*          each with the residual it left
    staleRead         \* history: some pass read through a pointer that the
                      \*          running call had not assigned

\* The state of the velocity reconstruction FVMPFAOVelocity2P (its model
\* follows the one of the evaluator below)
VARIABLES
    velocity,         \* problem().variables().velocity(): per cell and local
                      \*          face index a vector
    potential,        \* problem().variables().potentialWetting(cell, face),
                      \*          which potentialNonwetting always equals
    cout,             \* std::cout: the cells a message was written for
    calc,             \* the position of calculateVelocity in its loops,
                      \*          the problem it runs on, what it threw
    fluxLog           \* history: per cell and local face index the
                      \*          contributions added so far

velocityVars == << velocity, potential, cout, calc, fluxLog >>

\* no call of calculateVelocity was made yet
InitVelocity ==
    /\ velocity = << >>
    /\ potential = << >>
    /\ cout = << >>
    /\ calc = [pc |-> "idle"]
    /\ fluxLog = << >>

\* The state of BlackOilProblem's time integration: simulator is what
\* simulator() answers, timeInt the position and the history of the call
\* of timeIntegration in progress, restart the last answer of
\* shouldWriteRestartFile
VARIABLES simulator, timeInt, restart

timeVars == << simulator, timeInt, restart >>

InitTime ==
    /\ simulator = [timeStepSize |-> [n |-> 1, d |-> 1], timeStepIndex |-> 0,
                    episodeWillBeOver |-> FALSE, willBeFinished |-> FALSE]
    /\ timeInt = [pc |-> "idle"]
    /\ restart = [asked |-> FALSE]

\* The restart mechanism of BlackOilProblem: parts holds the state of the
\* three components that are written to a restart file, disk the restart
\* files by simulation time, ioLog the last operation with the calls it
\* made on the Restarter
VARIABLES parts, disk, ioLog

restartVars == << parts, disk, ioLog >>

\* the largest state of a component: the simulator's state is its time,
\* the VTK writer's its number of files, the model's its solution
MaxPartState == 1

\* no restart file was written yet
InitRestart ==
    /\ parts = [simulator |-> 0, defaultVtkWriter_ |-> 0, model |-> 0]
    /\ disk = [t \in 0..MaxPartState |-> << >>]
    /\ ioLog = [op |-> "none"]

\* AssemblerPDELab: matrix_ is *matrix_, rhs the vector *f of the call of
\* assemble, diagonalEntries the local vector of that name, assembly the
\* position in assemble and what the grid operator had assembled
VARIABLES matrix_, rhs, diagonalEntries, assembly

assembleVars == << matrix_, rhs, diagonalEntries, assembly >>

\* the constructor leaves an empty Jacobian (*matrix_ = 0); no call of
\* assemble was made yet
InitAssemble ==
    /\ matrix_ = << >>
    /\ rhs = << >>
    /\ diagonalEntries = << >>
    /\ assembly = [pc |-> "idle"]

\* the variables of the evaluator of the local residual
residualVars ==
    << residual_, elemPtr_, fvElemGeomPtr_, prevVolVarsPtr_,
       curVolVarsPtr_, bcTypesPtr_, problem, lastCall, log, staleRead >>

vars == << residual_, elemPtr_, fvElemGeomPtr_, prevVolVarsPtr_,
           curVolVarsPtr_, bcTypesPtr_, problem, lastCall, log, staleRead,
           velocityVars, timeVars, restartVars, assembleVars >>

\* A pointer field: what it points to and the state of that object.
\*   "uninit"   never assigned (the constructor initialises no pointer)
\*   "null"     assigned 0
\*   "valid"    points to a live object
\*   "dangling" points to an object whose lifetime has ended
Uninit == [st |-> "uninit", obj |-> << >>]
Null == [st |-> "null", obj |-> << >>]
AddressOf(obj) == [st |-> "valid", obj |-> obj]

PtrNames == {"elem", "fvElemGeom", "prevVolVars", "curVolVars", "bcTypes"}

\* the five pointer fields as one record
Ptrs ==
    [elem |-> elemPtr_, fvElemGeom |-> fvElemGeomPtr_,
     prevVolVars |-> prevVolVarsPtr_, curVolVars |-> curVolVarsPtr_,
     bcTypes |-> bcTypesPtr_]

\* accessors elem_(), fvElemGeom_(), curVolVars_(), prevVolVars_(), bcTypes_()
elem_(P) == P.elem.obj
fvElemGeom_(P) == P.fvElemGeom.obj
curVolVars_(P) == P.curVolVars.obj
prevVolVars_(P) == P.prevVolVars.obj
bcTypes_(P) == P.bcTypes.obj
curPrimaryVars_(P, i) == curVolVars_(P)[i].priVars

----------------------------------------------------------------------------
(* The operations of the physical model (Implementation) the evaluator     *)
(* calls through asImp_()                                                  *)

\* asImp_().computeFlux(flux, k): the flux over sub-control-volume face k,
\* a function of the current volume variables at the two ends of the face
computeFlux(P, k) ==
    LET face == fvElemGeom_(P).subContVolFace[k]
        up == curVolVars_(P)[face.i]
        dn == curVolVars_(P)[face.j]
    IN  [eq \in Eqs |-> up.mobility * up.priVars[eq] - dn.priVars[eq]]

\* asImp_().computeStorage(result, i, isOldSol)
computeStorage(P, i, isOldSol) ==
    IF isOldSol THEN prevVolVars_(P)[i].storage ELSE curVolVars_(P)[i].storage

\* asImp_().computeSource(source, i)
computeSource(P, i) == problemSource(elem_(P).id, i)

----------------------------------------------------------------------------
(* The residual vector                                                     *)

\* residual_.resize(n): blocks that exist are kept, new ones hold garbage g
Resize(r, n, g) ==
    [i \in 1..n |-> IF i <= Len(r) THEN r[i] ELSE [eq \in Eqs |-> g]]

\* "residual_ = 0" left out
AssignZeroSkipped(r) == r

\* residual_ = 0
AssignZero(r) == [i \in 1..Len(r) |-> ZeroVec]

----------------------------------------------------------------------------
(* The passes.  Each takes the residual vector r it finds and the pointer  *)
(* fields P, and returns the residual vector it leaves.                    *)

RECURSIVE evalFluxesFrom(_, _, _)
\* the loop of evalFluxes_ from face k on
evalFluxesFrom(r, P, k) ==
    IF k > fvElemGeom_(P).numEdges
    THEN r
    ELSE LET i == fvElemGeom_(P).subContVolFace[k].i
             j == fvElemGeom_(P).subContVolFace[k].j
             flux == computeFlux(P, k)
             r1 == [r EXCEPT ![i] = VecSub(@, flux)]
             r2 == [r1 EXCEPT ![j] = VecAdd(@, flux)]
         IN  evalFluxesFrom(r2, P, k + 1)

RECURSIVE evalFluxesSameSignFrom(_, _, _)
\* the loop of evalFluxes_ with the flux subtracted from both sub-control
\* volumes of the face
evalFluxesSameSignFrom(r, P, k) ==
    IF k > fvElemGeom_(P).numEdges
    THEN r
    ELSE LET i == fvElemGeom_(P).subContVolFace[k].i
             j == fvElemGeom_(P).subContVolFace[k].j
             flux == computeFlux(P, k)
             r1 == [r EXCEPT ![i] = VecSub(@, flux)]
             r2 == [r1 EXCEPT ![j] = VecSub(@, flux)]
         IN  evalFluxesSameSignFrom(r2, P, k + 1)

evalFluxesSameSign(r, P) == evalFluxesSameSignFrom(r, P, 1)

evalFluxes_(r, P) == evalFluxesFrom(r, P, 1)

\* evalStorage_ without the multiplication by the sub-control volume
evalStorageNoVolume(r, P) ==
    [i \in 1..Len(r) |->
        IF i <= fvElemGeom_(P).numVertices
        THEN computeStorage(P, i, FALSE)
        ELSE r[i]]

evalStorage_(r, P) ==
    [i \in 1..Len(r) |->
        IF i <= fvElemGeom_(P).numVertices
        THEN VecScale(computeStorage(P, i, FALSE),
                      fvElemGeom_(P).subContVol[i].volume)
        ELSE r[i]]

\* evalVolumeTerms_ with the source term added instead of subtracted
evalVolumeTermsSourceAdded(r, P, dt) ==
    [i \in 1..Len(r) |->
        IF i <= fvElemGeom_(P).numVertices
        THEN LET massContrib ==
                     VecScale(VecSub(computeStorage(P, i, FALSE),
                                     computeStorage(P, i, TRUE)),
                              fvElemGeom_(P).subContVol[i].volume \div dt)
                 source == VecScale(computeSource(P, i),
                                    fvElemGeom_(P).subContVol[i].volume)
             IN  VecAdd(VecAdd(r[i], massContrib), source)
        ELSE r[i]]

\* dt is problem_().timeManager().timeStepSize()
evalVolumeTerms_(r, P, dt) ==
    [i \in 1..Len(r) |->
        IF i <= fvElemGeom_(P).numVertices
        THEN LET massContrib ==
                     VecScale(VecSub(computeStorage(P, i, FALSE),
                                     computeStorage(P, i, TRUE)),
                              fvElemGeom_(P).subContVol[i].volume \div dt)
                 source == VecScale(computeSource(P, i),
                                    fvElemGeom_(P).subContVol[i].volume)
             IN  VecSub(VecAdd(r[i], massContrib), source)
        ELSE r[i]]

\* evalNeumannSegment_ without the test of bcTypes.hasNeumann()
evalNeumannSegmentUnguarded(r, P, isIt, scvIdx, boundaryFaceIdx) ==
    LET values ==
            VecScale(problemNeumann(elem_(P).id, isIt.indexInInside,
                                    scvIdx, boundaryFaceIdx),
                     fvElemGeom_(P).boundaryFace[boundaryFaceIdx].area)
    IN  [r EXCEPT ![scvIdx] = VecAdd(@, values)]

evalNeumannSegment_(r, P, isIt, scvIdx, boundaryFaceIdx) ==
    IF BTHasNeumann(bcTypes_(P)[scvIdx])
    THEN LET values ==
                 VecScale(problemNeumann(elem_(P).id, isIt.indexInInside,
                                         scvIdx, boundaryFaceIdx),
                          fvElemGeom_(P).boundaryFace[boundaryFaceIdx].area)
         IN  [r EXCEPT ![scvIdx] = VecAdd(@, values)]
    ELSE r

RECURSIVE evalNeumannFace(_, _, _, _)
\* the inner loop of evalNeumann_ over the vertices of one boundary face
evalNeumannFace(r, P, isIt, faceVertIdx) ==
    LET faceIdx == isIt.indexInInside
    IN  IF faceVertIdx > refElemSize(elem_(P).id, faceIdx)
        THEN r
        ELSE evalNeumannFace(
                 evalNeumannSegment_(
                     r, P, isIt,
                     refElemSubEntity(elem_(P).id, faceIdx, faceVertIdx),
                     boundaryFaceIndex(faceIdx, faceVertIdx)),
                 P, isIt, faceVertIdx + 1)

RECURSIVE evalNeumannFrom(_, _, _)
\* the outer loop of evalNeumann_ from intersection n on
evalNeumannFrom(r, P, n) ==
    IF n > Len(elem_(P).intersections)
    THEN r
    ELSE LET isIt == elem_(P).intersections[n]
         IN  IF ~isIt.boundary
             THEN evalNeumannFrom(r, P, n + 1)
             ELSE evalNeumannFrom(evalNeumannFace(r, P, isIt, 1), P, n + 1)

evalNeumann_(r, P) == evalNeumannFrom(r, P, 1)

\* the residual of one Dirichlet equation of sub-control volume i
DirichletResidual(P, i, eqIdx) ==
    LET tmp == problemDirichlet(elem_(P).id, i)
        pvIdx == eqToDirichletIndex(bcTypes_(P)[i], eqIdx)
    IN  curPrimaryVars_(P, i)[pvIdx] - tmp[pvIdx]

\* evalDirichlet_ with "+=" in place of "=": the Dirichlet residual is
\* added to what the earlier passes left
evalDirichletAdditive(r, P) ==
    [i \in 1..Len(r) |->
        IF i <= fvElemGeom_(P).numVertices /\ BTHasDirichlet(bcTypes_(P)[i])
        THEN [eqIdx \in Eqs |->
                 IF bcTypes_(P)[i].isDirichlet[eqIdx]
                 THEN r[i][eqIdx] + DirichletResidual(P, i, eqIdx)
                 ELSE r[i][eqIdx]]
        ELSE r[i]]

evalDirichlet_(r, P) ==
    [i \in 1..Len(r) |->
        IF i <= fvElemGeom_(P).numVertices /\ BTHasDirichlet(bcTypes_(P)[i])
        THEN [eqIdx \in Eqs |->
                 IF bcTypes_(P)[i].isDirichlet[eqIdx]
                 THEN DirichletResidual(P, i, eqIdx)
                 ELSE r[i][eqIdx]]
        ELSE r[i]]

----------------------------------------------------------------------------
(* Running a sequence of passes                                            *)

\* the pointer fields a pass reads through
PointersRead(pass) ==
    CASE pass = "evalFluxes_" -> {"fvElemGeom", "curVolVars"}
      [] pass = "evalStorage_" -> {"fvElemGeom", "curVolVars"}
      [] pass = "evalVolumeTerms_" ->
             {"elem", "fvElemGeom", "prevVolVars", "curVolVars"}
      [] pass = "evalNeumann_" -> {"elem", "fvElemGeom", "bcTypes"}
      [] pass = "evalDirichlet_" ->
             {"elem", "fvElemGeom", "curVolVars", "bcTypes"}

ApplyPass(pass, r, P, dt) ==
    CASE pass = "evalFluxes_" -> evalFluxes_(r, P)
      [] pass = "evalStorage_" -> evalStorage_(r, P)
      [] pass = "evalVolumeTerms_" -> evalVolumeTerms_(r, P, dt)
      [] pass = "evalNeumann_" -> evalNeumann_(r, P)
      [] pass = "evalDirichlet_" -> evalDirichlet_(r, P)

RECURSIVE RunPasses(_, _, _, _)
\* runs the passes in order from residual r; the result lists each pass
\* with the residual it left
RunPasses(r, passes, P, dt) ==
    IF passes = << >>
    THEN << >>
    ELSE LET r1 == ApplyPass(Head(passes), r, P, dt)
         IN  << [pass |-> Head(passes), res |-> r1] >>
                 \o RunPasses(r1, Tail(passes), P, dt)

\* eval running the Dirichlet pass before the Neumann pass
evalPassesDirichletFirst(bcTypes) ==
    << "evalFluxes_", "evalVolumeTerms_" >>
        \o (IF hasDirichlet(bcTypes) THEN << "evalDirichlet_" >> ELSE << >>)
        \o (IF hasNeumann(bcTypes) THEN << "evalNeumann_" >> ELSE << >>)

\* the passes eval(element, fvGeom, prevVolVars, curVolVars, bcTypes) runs
evalPasses(bcTypes) ==
    << "evalFluxes_", "evalVolumeTerms_" >>
        \o (IF hasNeumann(bcTypes) THEN << "evalNeumann_" >> ELSE << >>)
        \o (IF hasDirichlet(bcTypes) THEN << "evalDirichlet_" >> ELSE << >>)

\* evalStorage running the Dirichlet pass after the storage pass
evalStoragePassesWithDirichlet == << "evalStorage_", "evalDirichlet_" >>

\* the passes evalStorage(element) runs
evalStoragePasses == << "evalStorage_" >>

\* the passes evalFluxes(element, curVolVars) runs
evalFluxesPasses == << "evalFluxes_" >>

----------------------------------------------------------------------------
(* The pointer assignments of the entry points and the end of a call       *)

\* eval: elemPtr_ = &element ... curVolVarsPtr_ = &curVolVars
evalPointers(in) ==
    [elem |-> AddressOf(in.element),
     fvElemGeom |-> AddressOf(in.fvGeom),
     bcTypes |-> AddressOf(in.bcTypes),
     prevVolVars |-> AddressOf(in.prevVolVars),
     curVolVars |-> AddressOf(in.curVolVars)]

\* evalStorage taking the address of a temporary copy of the geometry,
\* which is destroyed at the end of the statement
evalStoragePointersToTemporary(in) ==
    [elem |-> AddressOf(in.element),
     fvElemGeom |-> [st |-> "dangling", obj |-> in.fvGeom],
     bcTypes |-> AddressOf(in.bcTypes),
     prevVolVars |-> Null,
     curVolVars |-> AddressOf(in.curVolVars)]

\* evalStorage: elemPtr_ = &element ... curVolVarsPtr_ = &volVars
evalStoragePointers(in) ==
    [elem |-> AddressOf(in.element),
     fvElemGeom |-> AddressOf(in.fvGeom),
     bcTypes |-> AddressOf(in.bcTypes),
     prevVolVars |-> Null,
     curVolVars |-> AddressOf(in.curVolVars)]

\* evalFluxes without the assignment "prevVolVarsPtr_ = 0": the field keeps
\* the address the call before left in it
evalFluxesPointersPrevKept(in) ==
    [elem |-> AddressOf(in.element),
     fvElemGeom |-> AddressOf(in.fvGeom),
     bcTypes |-> AddressOf(in.bcTypes),
     prevVolVars |-> prevVolVarsPtr_,
     curVolVars |-> AddressOf(in.curVolVars)]

\* evalFluxes: elemPtr_ = &element ... curVolVarsPtr_ = &curVolVars
evalFluxesPointers(in) ==
    [elem |-> AddressOf(in.element),
     fvElemGeom |-> AddressOf(in.fvGeom),
     bcTypes |-> AddressOf(in.bcTypes),
     prevVolVars |-> Null,
     curVolVars |-> AddressOf(in.curVolVars)]

\* The entry point returns: its local objects are destroyed, the pointer
\* fields keep their addresses.
Return(P, locals) ==
    [nm \in PtrNames |->
        IF nm \in locals /\ P[nm].st = "valid"
        THEN [st |-> "dangling", obj |-> P[nm].obj]
        ELSE P[nm]]

\* problem_().updateCouplingParams(element)
updateCouplingParams(prob, element) ==
    [prob EXCEPT !.couplingParams = element.id]

----------------------------------------------------------------------------
(* The entry points                                                        *)

\* the garbage values resize(n) may leave in new blocks
GarbageFor(n) == IF Len(residual_) < n THEN Garbage ELSE {0}

\* residual_.resize(n) without the "residual_ = 0" after it
ResetResidualResizeOnly(r, n, g) == Resize(r, n, g)

\* residual_.resize(n); residual_ = 0;
ResetResidual(r, n, g) == AssignZero(Resize(r, n, g))

\* the inputs of a call on element e
Inputs(e, prevVolVars, curVolVars, dt) ==
    [element |-> Element(e),
     fvGeom |-> FVElementGeometry(e),
     prevVolVars |-> prevVolVars,
     curVolVars |-> curVolVars,
     bcTypes |-> ElementBoundaryTypes(e),
     dt |-> dt]

\* the common tail of every entry point: run the passes from r0 with
\* pointer fields P1, store the result, return.  readFirst are the pointer
\* fields the entry point itself read before the first pass.
Finish(kind, in, P1, r0, passes, locals, readFirst) ==
    \E run \in {RunPasses(r0, passes, P1, in.dt)}, P2 \in {Return(P1, locals)} :
        /\ residual_' = (IF run = << >> THEN r0 ELSE run[Len(run)].res)
        /\ elemPtr_' = P2.elem
        /\ fvElemGeomPtr_' = P2.fvElemGeom
        /\ prevVolVarsPtr_' = P2.prevVolVars
        /\ curVolVarsPtr_' = P2.curVolVars
        /\ bcTypesPtr_' = P2.bcTypes
        /\ log' = run
        /\ lastCall' =
               [kind |-> kind, dt |-> in.dt,
                sizeAtEntry |-> Len(residual_),
                repeat |-> /\ lastCall.kind = kind
                           /\ lastCall.dt = in.dt
                           /\ elemPtr_.obj = in.element
                           /\ prevVolVarsPtr_.obj = in.prevVolVars
                           /\ curVolVarsPtr_.obj = in.curVolVars]
        /\ staleRead' =
               (staleRead \/
                (\E nm \in readFirst : P1[nm].st # "valid") \/
                \E k \in 1..Len(passes) :
                    \E nm \in PointersRead(passes[k]) : P1[nm].st # "valid")
        /\ UNCHANGED << velocityVars, timeVars, restartVars, assembleVars >>

\* eval(element, fvGeom, prevVolVars, curVolVars, bcTypes), called by
\* eval(element) with the objects in locals being local to the caller
eval(in, g, locals) ==
    \E P1 \in {evalPointers(in)} :
        \E r0 \in {ResetResidual(residual_, fvElemGeom_(P1).numVertices, g)} :
            Finish("eval", in, P1, r0, evalPasses(in.bcTypes), locals,
                   {"fvElemGeom"})

\* eval(element)
EvalElement(e, prevVolVars, curVolVars, dt, g) ==
    /\ problem' = updateCouplingParams(problem, Element(e))
    /\ \E in \in {Inputs(e, prevVolVars, curVolVars, dt)} :
           eval(in, g, {"fvElemGeom", "prevVolVars", "curVolVars", "bcTypes"})

\* evalStorage(element)
EvalStorage(e, curVolVars, g) ==
    \E in \in {Inputs(e, << >>, curVolVars, 0)} :
        \E r0 \in {ResetResidual(residual_, in.fvGeom.numVertices, g)},
           P1 \in {evalStoragePointers(in)} :
            /\ Finish("evalStorage", in, P1, r0, evalStoragePasses,
                      {"fvElemGeom", "curVolVars", "bcTypes"}, {})
            /\ UNCHANGED problem

\* evalFluxes(element, curVolVars)
EvalFluxes(e, curVolVars, g) ==
    \E in \in {Inputs(e, << >>, curVolVars, 0)} :
        \E r0 \in {ResetResidual(residual_, in.fvGeom.numVertices, g)},
           P1 \in {evalFluxesPointers(in)} :
            /\ Finish("evalFluxes", in, P1, r0, evalFluxesPasses,
                      {"fvElemGeom", "bcTypes"}, {})
            /\ UNCHANGED problem

Init ==
    /\ residual_ = << >>
    /\ elemPtr_ = Uninit
    /\ fvElemGeomPtr_ = Uninit
    /\ prevVolVarsPtr_ = Uninit
    /\ curVolVarsPtr_ = Uninit
    /\ bcTypesPtr_ = Uninit
    /\ problem = [couplingParams |-> 0]
    /\ lastCall = [kind |-> "none", dt |-> 0, sizeAtEntry |-> 0,
                   repeat |-> FALSE]
    /\ log = << >>
    /\ staleRead = FALSE
    /\ InitVelocity
    /\ InitTime
    /\ InitRestart
    /\ InitAssemble

NumVerticesOf(e) == FVElementGeometry(e).numVertices

Next ==
    \/ \E e \in Elements :
         \E prev \in PrevVolVarsSet(NumVerticesOf(e)),
            cur \in CurVolVarsSet(NumVerticesOf(e)),
            dt \in TimeStepSizes, g \in GarbageFor(NumVerticesOf(e)) :
             EvalElement(e, prev, cur, dt, g)
    \/ \E e \in Elements :
         \E cur \in CurVolVarsSet(NumVerticesOf(e)),
            g \in GarbageFor(NumVerticesOf(e)) :
             EvalStorage(e, cur, g)
    \/ \E e \in Elements :
         \E cur \in CurVolVarsSet(NumVerticesOf(e)),
            g \in GarbageFor(NumVerticesOf(e)) :
             EvalFluxes(e, cur, g)

Spec == Init /\ [][Next]_vars

----------------------------------------------------------------------------
(* Properties                                                              *)

\* the passes the entry point called last runs on boundary types bcTypes
PassesOfCall(kind, bcTypes) ==
    CASE kind = "eval" -> evalPasses(bcTypes)
      [] kind = "evalStorage" -> evalStoragePasses
      [] kind = "evalFluxes" -> evalFluxesPasses
      [] OTHER -> << >>

\* a residual vector of n zero blocks
ZeroResidual(n) == [i \in 1..n |-> ZeroVec]

RECURSIVE SumUpTo(_, _, _)
\* r[1][eq] + ... + r[n][eq]
SumUpTo(r, eq, n) == IF n = 0 THEN 0 ELSE r[n][eq] + SumUpTo(r, eq, n - 1)

\* the number of the pass in the log of the last call, 0 when it did not run
PassIndex(pass) ==
    IF \E k \in 1..Len(log) : log[k].pass = pass
    THEN CHOOSE k \in 1..Len(log) : log[k].pass = pass
    ELSE 0

Called == lastCall.kind # "none"

\* C1 (as amended): after eval, for every sub-control volume i with a
\* Dirichlet condition and every equation e classified Dirichlet there,
\* residual[i][e] = currentPrimaryVariable(i)[p] - dirichletValue(i)[p] with
\* p = eqToDirichletIndex(e), whatever the earlier passes left in it.
C1_DirichletOverwrite ==
    lastCall.kind = "eval" =>
        \A i \in 1..Len(residual_) : \A e \in Eqs :
            bcTypes_(Ptrs)[i].isDirichlet[e] =>
                LET p == bcTypes_(Ptrs)[i].eq2pvIdx[e]
                IN  residual_[i][e] =
                        curVolVars_(Ptrs)[i].priVars[p]
                            - problemDirichlet(elem_(Ptrs).id, i)[p]

\* C1 as stated: residual[i][e] = currentPrimaryVariable(i)[e] - v, with v
\* the value the problem prescribes for the condition
C1_DirichletSameIndex ==
    lastCall.kind = "eval" =>
        \A i \in 1..Len(residual_) : \A e \in Eqs :
            bcTypes_(Ptrs)[i].isDirichlet[e] =>
                LET p == bcTypes_(Ptrs)[i].eq2pvIdx[e]
                IN  residual_[i][e] =
                        curVolVars_(Ptrs)[i].priVars[e]
                            - problemDirichlet(elem_(Ptrs).id, i)[p]

\* an eval whose Dirichlet pass overwrote a component the earlier passes
\* had left non-zero, for an equation coupled to another primary variable
C1_Witness ==
    /\ lastCall.kind = "eval"
    /\ PassIndex("evalDirichlet_") > 1
    /\ \E i \in 1..Len(residual_) : \E e \in Eqs :
           /\ bcTypes_(Ptrs)[i].isDirichlet[e]
           /\ bcTypes_(Ptrs)[i].eq2pvIdx[e] # e
           /\ log[PassIndex("evalDirichlet_") - 1].res[i][e]
                  \notin {0, residual_[i][e]}

\* C2: after evalFluxes the residuals of the sub-control volumes of the
\* cell sum to zero, for every equation; so does what the flux pass of
\* eval leaves.
C2_FluxConservation ==
    /\ lastCall.kind = "evalFluxes" =>
           \A eq \in Eqs : SumUpTo(residual_, eq, Len(residual_)) = 0
    /\ lastCall.kind = "eval" =>
           /\ log[1].pass = "evalFluxes_"
           /\ \A eq \in Eqs : SumUpTo(log[1].res, eq, Len(log[1].res)) = 0

\* an evalFluxes on a quadrilateral that left non-zero residuals
C2_Witness ==
    /\ lastCall.kind = "evalFluxes"
    /\ Len(residual_) = 4
    /\ \A eq \in Eqs : \E i \in 1..Len(residual_) : residual_[i][eq] # 0

\* C3: after any call the residual has one block per sub-control volume of
\* the cell of that call and equals what the passes of that call compute
\* from an all-zero vector: nothing of an earlier call is left in it.
C3_ResetFirst ==
    Called =>
        /\ Len(residual_) = fvElemGeom_(Ptrs).numVertices
        /\ LET run == RunPasses(ZeroResidual(fvElemGeom_(Ptrs).numVertices),
                                PassesOfCall(lastCall.kind, bcTypes_(Ptrs)),
                                Ptrs, lastCall.dt)
           IN  residual_ = run[Len(run)].res

\* a call on a cell with more sub-control volumes than the call before it,
\* which had left a non-zero residual
C3_Witness ==
    /\ Called
    /\ lastCall.sizeAtEntry > 0
    /\ lastCall.sizeAtEntry < Len(residual_)
    /\ \E i \in 1..Len(residual_) : residual_[i] # ZeroVec

\* the step is a call of the entry point called last, with the inputs of
\* that call
SameCallAgain ==
    /\ Called
    /\ lastCall'.kind = lastCall.kind
    /\ lastCall'.dt = lastCall.dt
    /\ elemPtr_'.obj = elemPtr_.obj
    /\ fvElemGeomPtr_'.obj = fvElemGeomPtr_.obj
    /\ prevVolVarsPtr_'.obj = prevVolVarsPtr_.obj
    /\ curVolVarsPtr_'.obj = curVolVarsPtr_.obj
    /\ bcTypesPtr_'.obj = bcTypesPtr_.obj

C5_StorageTerm ==
    lastCall.kind = "evalStorage" =>
        \A i \in 1..Len(residual_) :
            LET vol == fvElemGeom_(Ptrs).subContVol[i].volume
                source == problemSource(elem_(Ptrs).id, i)
            IN  /\ residual_[i] = VecScale(curVolVars_(Ptrs)[i].storage, vol)
                /\ \A prev \in PrevVolVarsSet(Len(residual_)),
                      dt \in TimeStepSizes :
                       LET P == [Ptrs EXCEPT !.prevVolVars = AddressOf(prev)]
                           vt == evalVolumeTerms_(ZeroResidual(Len(residual_)),
                                                  P, dt)
                       IN  \A eq \in Eqs :
                               dt * (vt[i][eq]
                                     + prev[i].storage[eq] * (vol \div dt)
                                     + source[eq] * vol)
                                   = residual_[i][eq]

\* an evalStorage on a cell with Dirichlet conditions that reported storage
C5_Witness ==
    /\ lastCall.kind = "evalStorage"
    /\ hasDirichlet(bcTypes_(Ptrs))
    /\ \A i \in 1..Len(residual_) : residual_[i] # ZeroVec

\* C6: the volume-term pass of eval changes residual[i][eq] by
\* (currentStorage(i) - previousStorage(i)) * volume(i) / timeStepSize
\* minus source(i) * volume(i), from the data of sub-control volume i alone.
C6_VolumeTerms ==
    lastCall.kind = "eval" =>
        /\ Len(log) >= 2
        /\ log[2].pass = "evalVolumeTerms_"
        /\ \A i \in 1..Len(residual_) : \A eq \in Eqs :
               LET vol == fvElemGeom_(Ptrs).subContVol[i].volume
                   cs == curVolVars_(Ptrs)[i].storage[eq]
                   ps == prevVolVars_(Ptrs)[i].storage[eq]
                   source == problemSource(elem_(Ptrs).id, i)[eq]
               IN  log[2].res[i][eq] - log[1].res[i][eq]
                       = (((cs - ps) * vol) \div lastCall.dt) - source * vol

\* an eval with time step size 2 in which storage changed and a source acts
C6_Witness ==
    /\ lastCall.kind = "eval"
    /\ lastCall.dt = 2
    /\ \E i \in 1..Len(residual_) : \E eq \in Eqs :
           /\ curVolVars_(Ptrs)[i].storage[eq] # prevVolVars_(Ptrs)[i].storage[eq]
           /\ problemSource(elem_(Ptrs).id, i)[eq] # 0
           /\ log[2].res[i][eq] # log[1].res[i][eq]

RECURSIVE NeumannSum(_, _, _)
\* the Neumann contributions to sub-control volume i of the first k
\* (face, vertex of face) pairs of the cell
NeumannSum(P, i, k) ==
    IF k = 0
    THEN ZeroVec
    ELSE LET f == ((k - 1) \div 2) + 1
             fv == ((k - 1) % 2) + 1
             b == boundaryFaceIndex(f, fv)
             e == elem_(P).id
         IN  VecAdd(NeumannSum(P, i, k - 1),
                    IF /\ f \in BoundaryFacesOf(e)
                       /\ refElemSubEntity(e, f, fv) = i
                       /\ BTHasNeumann(bcTypes_(P)[i])
                    THEN VecScale(problemNeumann(e, f, i, b),
                                  fvElemGeom_(P).boundaryFace[b].area)
                    ELSE ZeroVec)

\* what the Neumann pass of the last call added to sub-control volume i
NeumannDelta(i) ==
    LET k == PassIndex("evalNeumann_")
    IN  VecSub(log[k].res[i], log[k - 1].res[i])

\* C7 (as amended): the Neumann pass adds to each sub-control volume that
\* has a Neumann condition for some equation the whole vector
\* neumannFlux * boundaryFaceArea, all equations, once per boundary face
\* segment of it; other sub-control volumes and interior faces get nothing.
C7_NeumannPass ==
    (lastCall.kind = "eval" /\ PassIndex("evalNeumann_") > 0) =>
        \A i \in 1..Len(residual_) :
            NeumannDelta(i) =
                NeumannSum(Ptrs, i, 2 * Len(elem_(Ptrs).intersections))

\* C7 as stated: the Neumann pass changes only components of equations
\* classified Neumann
C7_OnlyNeumannEquations ==
    (lastCall.kind = "eval" /\ PassIndex("evalNeumann_") > 0) =>
        \A i \in 1..Len(residual_) : \A eq \in Eqs :
            ~bcTypes_(Ptrs)[i].isNeumann[eq] => NeumannDelta(i)[eq] = 0

\* an eval whose Neumann pass added to an equation that is classified
\* Dirichlet, and left boundary vertices without Neumann condition alone
C7_Witness ==
    /\ lastCall.kind = "eval"
    /\ PassIndex("evalNeumann_") > 0
    /\ \E i \in 1..Len(residual_) : \E eq \in Eqs :
           /\ bcTypes_(Ptrs)[i].isDirichlet[eq]
           /\ NeumannDelta(i)[eq] # 0
    /\ \E i \in 1..Len(residual_) :
           /\ ~BTHasNeumann(bcTypes_(Ptrs)[i])
           /\ BTHasDirichlet(bcTypes_(Ptrs)[i])
           /\ NeumannDelta(i) = ZeroVec

\* C8: evalStorage runs the storage pass and nothing else, evalFluxes the
\* flux pass and nothing else, whatever the boundary types of the cell.
C8_RestrictedPasses ==
    /\ lastCall.kind = "evalStorage" =>
           /\ Len(log) = 1
           /\ log[1].pass = "evalStorage_"
           /\ residual_ = log[1].res
    /\ lastCall.kind = "evalFluxes" =>
           /\ Len(log) = 1
           /\ log[1].pass = "evalFluxes_"
           /\ residual_ = log[1].res

\* an evalStorage on a cell with both Neumann and Dirichlet conditions
C8_Witness ==
    /\ lastCall.kind = "evalStorage"
    /\ hasNeumann(bcTypes_(Ptrs))
    /\ hasDirichlet(bcTypes_(Ptrs))
    /\ residual_ # ZeroResidual(Len(residual_))

\* C9 as stated: a step of eval(element) changes nothing but the residual
\* vector (and the history): the problem and the evaluator's other fields
\* stay as they were.
C9_NoSideEffects ==
    [][lastCall'.kind = "eval" =>
           UNCHANGED << problem, elemPtr_, fvElemGeomPtr_, prevVolVarsPtr_,
                        curVolVarsPtr_, bcTypesPtr_ >>]_vars

\* C10 as stated: between calls no pointer field holds the address of an
\* object whose lifetime has ended
C10_NoDanglingPointer == \A nm \in PtrNames : Ptrs[nm].st # "dangling"

\* C10 (as amended): the pointer fields keep the addresses of the locals of
\* the last call, but no pass ever reads through a pointer field that the
\* running call has not assigned.
C10_NoStaleRead == ~staleRead

\* a call that found the pointer fields dangling from the call before it
C10_Witness ==
    /\ Called
    /\ lastCall.sizeAtEntry > 0
    /\ fvElemGeomPtr_.st = "dangling"
    /\ bcTypesPtr_.st = "dangling"
    /\ ~staleRead

----------------------------------------------------------------------------
(***************************************************************************)
(* Velocity reconstruction of the MPFA O-method                            *)
(* (dumux/decoupled/2p/diffusion/fvmpfa/fvmpfaovelocity2p.hh,              *)
(* FVMPFAOVelocity2P::calculateVelocity).                                  *)
(*                                                                         *)
(* Scalars are exact rationals [n, d] in lowest terms with d > 0; a        *)
(* quotient by zero is the value [n |-> 0, d |-> 0] (not a number), which  *)
(* compares false with everything.  Local face indices are those of the    *)
(* code (0..3); matrix and vector indices are 1-based.                     *)
(***************************************************************************)

Abs(n) == IF n < 0 THEN 0 - n ELSE n

RECURSIVE GCD(_, _)
GCD(a, b) == IF b = 0 THEN a ELSE GCD(b, a % b)

\* the Scalar n / d
Q(n, d) ==
    IF d = 0 THEN [n |-> 0, d |-> 0]
    ELSE LET g == GCD(Abs(n), Abs(d))
             s == IF d < 0 THEN 0 - 1 ELSE 1
         IN  [n |-> (s * n) \div g, d |-> (s * d) \div g]

QInt(n) == [n |-> n, d |-> 1]
QZero == QInt(0)
\* the operations cancel common factors before they multiply, which keeps
\* the numerators and denominators small
QAdd(a, b) ==
    IF a.d = 0 \/ b.d = 0 THEN Q(0, 0)
    ELSE LET g == GCD(a.d, b.d)
         IN  Q(a.n * (b.d \div g) + b.n * (a.d \div g), (a.d \div g) * b.d)
QNeg(a) == [n |-> 0 - a.n, d |-> a.d]
QSub(a, b) == QAdd(a, QNeg(b))
QMul(a, b) ==
    IF a.d = 0 \/ b.d = 0 THEN Q(0, 0)
    ELSE LET g1 == GCD(Abs(a.n), b.d)
             g2 == GCD(Abs(b.n), a.d)
         IN  Q((a.n \div g1) * (b.n \div g2),
               (a.d \div g2) * (b.d \div g1))
QDiv(a, b) ==
    \* a times the inverse of b, which is not a number when b is 0 or not
    \* a number
    QMul(a, IF b.n < 0 THEN [n |-> 0 - b.d, d |-> 0 - b.n]
            ELSE [n |-> IF b.n = 0 THEN 0 ELSE b.d, d |-> b.n])
\* fabs
QAbs(a) == [n |-> Abs(a.n), d |-> a.d]
\* a > b on Scalars (false when one of them is not a number)
QGreater(a, b) == a.d # 0 /\ b.d # 0 /\ a.n * b.d > b.n * a.d

\* Dune::FieldVector<Scalar, n> and Dune::FieldMatrix<Scalar, n, m> are
\* sequences and sequences of rows
RECURSIVE QSum(_, _)
\* v[1] + ... + v[n]
QSum(v, n) == IF n = 0 THEN QZero ELSE QAdd(QSum(v, n - 1), v[n])

\* the sequence f[1], ..., f[n], each entry computed once
Tuple(f, n) ==
    CASE n = 2 -> << f[1], f[2] >>
      [] n = 3 -> << f[1], f[2], f[3] >>
      [] n = 4 -> << f[1], f[2], f[3], f[4] >>

\* FieldVector::operator*: the scalar product
Dot(a, b) == QSum([k \in 1..Len(a) |-> QMul(a[k], b[k])], Len(a))

\* FieldVector::operator*=(Scalar)
Scale(v, s) == Tuple([k \in 1..Len(v) |-> QMul(v[k], s)], Len(v))

VAdd(a, b) == Tuple([k \in 1..Len(a) |-> QAdd(a[k], b[k])], Len(a))
VSub(a, b) == Tuple([k \in 1..Len(a) |-> QSub(a[k], b[k])], Len(a))

\* FieldMatrix::umv(x, y) on y = 0: the product M x
Umv(M, x) == Tuple([i \in 1..Len(M) |-> Dot(M[i], x)], Len(M))

Column(M, j) == Tuple([i \in 1..Len(M) |-> M[i][j]], Len(M))

\* the matrix product M N
MatMul(M, N) ==
    Tuple([i \in 1..Len(M) |->
              Tuple([j \in 1..Len(N[1]) |-> Dot(M[i], Column(N, j))],
                    Len(N[1]))],
          Len(M))

\* FieldMatrix::operator+=
MatAdd(M, N) ==
    Tuple([i \in 1..Len(M) |-> VAdd(M[i], N[i])], Len(M))

\* M.rightmultiply(N) leaves M N in M; M.leftmultiply(N) leaves N M in M
rightmultiply(M, N) == MatMul(M, N)
leftmultiply(M, N) == MatMul(N, M)

\* a sequence without its entry k
Without(s, k) == SubSeq(s, 1, k - 1) \o SubSeq(s, k + 1, Len(s))

\* M without row i and column j
Minor(M, i, j) ==
    LET rows == Without(M, i)
    IN  IF Len(rows) = 1 THEN << Without(rows[1], j) >>
        ELSE Tuple([k \in 1..Len(rows) |-> Without(rows[k], j)], Len(rows))

RECURSIVE Det(_)
\* the determinant, expanded along the first row
Det(M) ==
    IF Len(M) = 1 THEN M[1][1]
    ELSE QSum([j \in 1..Len(M) |->
                  QMul(IF j % 2 = 1 THEN M[1][j] ELSE QNeg(M[1][j]),
                       Det(Minor(M, 1, j)))],
              Len(M))

\* FieldMatrix::invert(): the inverse, from the cofactors
invert(M) ==
    \* entry (i, j) of the inverse is cofactor (j, i) over the determinant
    LET det == Det(M)
    IN  Tuple([i \in 1..Len(M) |->
                  Tuple([j \in 1..Len(M) |->
                            QDiv(IF (i + j) % 2 = 0
                                 THEN Det(Minor(M, j, i))
                                 ELSE QNeg(Det(Minor(M, j, i))),
                                 det)],
                        Len(M))],
              Len(M))

----------------------------------------------------------------------------
(* The grid view: a structured grid of NX x NY square cells of edge 2.     *)
(* Cell c has the column c % NX and the row c \div NX; its centre is       *)
(* (2 column + 1, 2 row + 1).  Local face indices (indexInInside):         *)
(* 0 left, 1 right, 2 bottom, 3 top.                                       *)

dim == 2
NX == 2
NY == 2

\* the cells in the order the element iterator visits them; a cell is its
\* index problem().variables().index(*eIt)
GridCells == 0..(NX * NY - 1)

\* GridTypeIndices: the grid implementations; aluGrid stands for every
\* implementation calculateVelocity has no case for
GridTypeIndices == {"sGrid", "yaspGrid", "ugGrid", "aluGrid"}

QVec(x, y) == << QInt(x), QInt(y) >>

\* eIt->geometry().center() and eIt->geometry().volume()
cellCenter(c) == QVec(2 * (c % NX) + 1, 2 * (c \div NX) + 1)
cellVolume(c) == QInt(4)

\* the order in which ibegin(cell) .. iend(cell) visits the faces
IntersectionOrder(gridImplementation) ==
    IF gridImplementation = "ugGrid" THEN << 2, 1, 3, 0 >>
    ELSE << 0, 1, 2, 3 >>

\* an intersection: the face indexInInside of the cell inside
Intersection(c, i) == [inside |-> c, indexInInside |-> i]

\* Intersection::centerUnitOuterNormal()
centerUnitOuterNormal(is) ==
    CASE is.indexInInside = 0 -> QVec(0 - 1, 0)
      [] is.indexInInside = 1 -> QVec(1, 0)
      [] is.indexInInside = 2 -> QVec(0, 0 - 1)
      [] is.indexInInside = 3 -> QVec(0, 1)

\* column and row of the cell behind the face
OutsideColumn(is) ==
    (is.inside % NX) + (CASE is.indexInInside = 0 -> 0 - 1
                          [] is.indexInInside = 1 -> 1
                          [] OTHER -> 0)
OutsideRow(is) ==
    (is.inside \div NX) + (CASE is.indexInInside = 2 -> 0 - 1
                             [] is.indexInInside = 3 -> 1
                             [] OTHER -> 0)

\* Intersection::neighbor(), boundary(), outside()
neighbor(is) ==
    OutsideColumn(is) \in 0..(NX - 1) /\ OutsideRow(is) \in 0..(NY - 1)
boundary(is) == ~neighbor(is)
outside(is) == OutsideRow(is) * NX + OutsideColumn(is)

\* Intersection::geometry(): center(), volume(), corner(0), corner(1)
faceCenter(is) == VAdd(cellCenter(is.inside), centerUnitOuterNormal(is))
faceVolume(is) == QInt(2)
faceCorners(is) ==
    LET m == faceCenter(is)
        t == IF is.indexInInside \in {0, 1} THEN QVec(0, 1) ELSE QVec(1, 0)
    IN  << VSub(m, t), VAdd(m, t) >>

\* the intersections of cell c in iteration order
IntersectionsOfCell(gridImplementation, c) ==
    LET order == IntersectionOrder(gridImplementation)
    IN  << Intersection(c, order[1]), Intersection(c, order[2]),
           Intersection(c, order[3]), Intersection(c, order[4]) >>

----------------------------------------------------------------------------
(* The problem calculateVelocity runs on                                   *)

\* GET_PROP_VALUE(TypeTag, PTAG(VelocityFormulation)): total or wetting
VelocityFormulations == {"vt", "vw"}

\* this->saturationType: the primary saturation variable
SaturationTypes == {"Sw", "Sn"}

\* the media: 1 is isotropic (K the identity, total mobility 1), 2 has
\* full tensors that differ from cell to cell and mobilities that vary
Media == {1, 2}

\* the ways the boundary faces are classified for the pressure equation
BoundaryLayouts == {"dirichlet", "neumann", "ring", "alternating"}

\* problem().variables().pressure(): one Scalar per cell.  The fields are
\* the uniform ones and those that differ from zero in one cell; the
\* fluxes are linear in the pressures
PressureFields ==
    {[c \in GridCells |-> p] : p \in Scalars}
        \cup {[c \in GridCells |-> IF c = k THEN p ELSE 0] :
                  k \in GridCells, p \in Scalars}

\* the velocity field calculateVelocity finds: the one variableclass
\* initialised, or what an earlier call left
InitialVelocities == {0, 1}

Problems ==
    [gridImplementation : GridTypeIndices,
     velocityFormulation : VelocityFormulations,
     saturationType : SaturationTypes,
     medium : Media,
     layout : BoundaryLayouts,
     pressure : PressureFields,
     initialVelocity : InitialVelocities]

\* problem().spatialParameters().intrinsicPermeability(cell)
intrinsicPermeability(P, c) ==
    IF P.medium = 1 THEN << QVec(1, 0), QVec(0, 1) >>
    ELSE IF ((c % NX) + (c \div NX)) % 2 = 0
         THEN << QVec(2, 1), QVec(1, 2) >>
         ELSE << QVec(3, 0 - 1), QVec(0 - 1, 2) >>

\* problem().variables().mobilityWetting(c), mobilityNonwetting(c)
mobilityWetting(P, c) == IF P.medium = 1 THEN QInt(1) ELSE QInt(1 + (c % 2))
mobilityNonwetting(P, c) == IF P.medium = 1 THEN QZero ELSE QInt(1)

\* problem().variables().densityWetting(c), densityNonwetting(c)
densityWetting(P, c) == QInt(1)
densityNonwetting(P, c) == QInt(2)

\* problem().source(source, cell): wetting and non-wetting source
problemSourceOf(P, c) ==
    [w |-> IF P.medium = 1 THEN QZero ELSE QInt(c % 2), n |-> QZero]

\* problem().boundaryTypes(bcType, intersection), for the pressure and
\* the saturation equation
boundaryTypes(P, is) ==
    LET d == CASE P.layout = "dirichlet" -> TRUE
               [] P.layout = "neumann" -> FALSE
               [] P.layout = "ring" ->
                    \* Dirichlet on the faces of the cells of the second
                    \* half of the grid but those that look downwards
                    is.inside >= (NX * NY) \div 2
                       /\ is.indexInInside # 2
               [] P.layout = "alternating" ->
                    ((is.inside % NX) + (is.inside \div NX)
                         + is.indexInInside) % 2 = 0
    IN  [pressDirichlet |-> d, pressNeumann |-> ~d,
         satDirichlet |-> d /\ is.inside % 2 = 0]

\* BoundaryTypes::isNeumann(pressEqIdx), isDirichlet(pressEqIdx),
\* isDirichlet(satEqIdx)
isNeumannPress(bcType) == bcType.pressNeumann
isDirichletPress(bcType) == bcType.pressDirichlet
isDirichletSat(bcType) == bcType.satDirichlet

\* problem().dirichlet(boundValues, intersection)
problemDirichletOf(P, is) ==
    [pressure |-> QInt(1 + is.inside + is.indexInInside),
     saturation |-> QInt((is.inside + is.indexInInside) % 2)]

\* problem().neumann(boundValues, intersection)
problemNeumannOf(P, is) ==
    [w |-> QInt(is.indexInInside - 1), n |-> QInt(2 * (is.inside % 2))]

\* MaterialLaw::krw, krn over FluidSystem::phaseViscosity: the mobilities
\* of the phases at wetting saturation satW
lambdaWBound(satW) == satW
lambdaNWBound(satW) == QMul(QInt(2), QSub(QInt(1), satW))

----------------------------------------------------------------------------
(* The arithmetic of Scalars, written as in the source                     *)

a ++ b == QAdd(a, b)
a -- b == QSub(a, b)
a ** b == QMul(a, b)
a // b == QDiv(a, b)

QHalf == Q(1, 2)

----------------------------------------------------------------------------
(* One pair (isIt, nextisIt) of consecutive faces of a cell                *)

\* FieldMatrix R with R[0][1] = 1, R[1][0] = -1; Rot(x) is R.umv(x, y)
\* on y = 0
Rot(x) == << x[2], QNeg(x[1]) >>

\* the switch on the grid implementation with every other grid treated as
\* UGGrid
nextisItPositionAnyGrid(gridImplementation, pos) ==
    LET isItBegin == 1
        isItEnd == 5
        tempisIt == pos + 1
    IN  IF gridImplementation \in {"sGrid", "yaspGrid"}
        THEN IF tempisIt = isItEnd THEN isItBegin
             ELSE IF tempisIt + 1 = isItEnd THEN isItBegin + 1
                  ELSE tempisIt + 1
        ELSE IF tempisIt = isItEnd THEN isItBegin ELSE tempisIt

\* the switch with "nextisIt = tempisItBegin" in place of
\* "nextisIt = ++tempisItBegin" in the cases of SGrid and YaspGrid
nextisItPositionFromBegin(gridImplementation, pos) ==
    LET isItBegin == 1
        isItEnd == 5
        tempisIt == pos + 1
    IN  CASE gridImplementation \in {"sGrid", "yaspGrid"} ->
               IF tempisIt = isItEnd THEN isItBegin
               ELSE IF tempisIt + 1 = isItEnd THEN isItBegin
                    ELSE tempisIt + 1
          [] gridImplementation = "ugGrid" ->
               IF tempisIt = isItEnd THEN isItBegin ELSE tempisIt
          [] OTHER -> 0

\* the position after isIt of the iterator nextisIt the switch on the grid
\* implementation leaves; positions are 1..4, isItEnd is 5, and 0 stands
\* for the default case, which throws Dune::NotImplemented
nextisItPosition(gridImplementation, pos) ==
    LET isItBegin == 1
        isItEnd == 5
        tempisIt == pos + 1
    IN  CASE gridImplementation \in {"sGrid", "yaspGrid"} ->
               IF tempisIt = isItEnd THEN isItBegin
               ELSE IF tempisIt + 1 = isItEnd THEN isItBegin + 1
                    ELSE tempisIt + 1
          [] gridImplementation = "ugGrid" ->
               IF tempisIt = isItEnd THEN isItBegin ELSE tempisIt
          [] OTHER -> 0

RECURSIVE LastMatching(_, _, _, _)
\* the element a loop over seq[1..n] that assigns every element in
\* matching leaves in a variable that held default before
LastMatching(seq, n, matching, default) ==
    IF n = 0 THEN default
    ELSE IF seq[n] \in matching THEN seq[n]
         ELSE LastMatching(seq, n - 1, matching, default)

\* corner1234: the corner isIt and nextisIt share
corner1234Of(isIt, nextisIt) ==
    LastMatching(faceCorners(isIt), 2,
                 {faceCorners(nextisIt)[1], faceCorners(nextisIt)[2]},
                 QVec(0, 0))

hasCorner(is, corner) ==
    corner \in {faceCorners(is)[1], faceCorners(is)[2]}

\* integrationOuterNormal: the unit outer normal scaled with half the
\* volume of the face
integrationOuterNormal(is) ==
    Scale(centerUnitOuterNormal(is), faceVolume(is) ** QHalf)

\* total mobility of a cell
totalMobility(P, c) == mobilityWetting(P, c) ++ mobilityNonwetting(P, c)

\* total mobility at a Dirichlet boundary face: from the saturation at the
\* boundary when it is prescribed, that of the cell otherwise
boundaryMobility(P, bcType, boundValues, lambdaCell) ==
    IF isDirichletSat(bcType)
    THEN LET satBound == boundValues.saturation
             satW == IF P.saturationType = "Sw" THEN satBound
                     ELSE QInt(1) -- satBound
         IN  lambdaWBound(satW) ++ lambdaNWBound(satW)
    ELSE lambdaCell

\* J: the total volume flux a Neumann condition prescribes on a face,
\* with the densities of cell c
neumannFlux(P, c, is) ==
    LET boundValues == problemNeumannOf(P, is)
    IN  (boundValues.w // densityWetting(P, c))
            ++ (boundValues.n // densityNonwetting(P, c))

\* the flux coefficients that one cell adds to a region: lambda the
\* mobility, K the permeability, nA and nB the two integration normals,
\* nu1 and nu2 the two rotated vectors of the cell; gXY belongs to normal
\* X and vector Y
FluxCoefficientsOf(lambda, nA, nB, Knu1, Knu2, dF) ==
    [g11 |-> (lambda ** Dot(nA, Knu1)) // dF,
     g12 |-> (lambda ** Dot(nA, Knu2)) // dF,
     g21 |-> (lambda ** Dot(nB, Knu1)) // dF,
     g22 |-> (lambda ** Dot(nB, Knu2)) // dF]

\* K.umv(nu1, Knu1), K.umv(nu2, Knu2) and dF = fabs(nu1 * (R nu2))
FluxCoefficients(lambda, K, nA, nB, nu1, nu2) ==
    FluxCoefficientsOf(lambda, nA, nB, Umv(K, nu1), Umv(K, nu2),
                       QAbs(Dot(nu1, Rot(nu2))))

\* g111, g121, g211, g221: cell 1 (the processed cell c) with mobility lambda
Cell1Coefficients(P, c, isIt, nextisIt, lambda) ==
    FluxCoefficients(lambda, intrinsicPermeability(P, c),
                     integrationOuterNormal(isIt),
                     integrationOuterNormal(nextisIt),
                     Rot(VSub(faceCenter(nextisIt), cellCenter(c))),
                     Rot(VSub(cellCenter(c), faceCenter(isIt))))

\* g112, g122, g212, g222: cell 2 behind isIt, isIt24 its face to cell 4
Cell2Coefficients(P, isIt, isIt24, lambda) ==
    FluxCoefficients(lambda, intrinsicPermeability(P, outside(isIt)),
                     integrationOuterNormal(isIt),
                     integrationOuterNormal(isIt24),
                     Rot(VSub(faceCenter(isIt24), cellCenter(outside(isIt)))),
                     Rot(VSub(faceCenter(isIt), cellCenter(outside(isIt)))))

\* g113, g123, g213, g223: cell 3 behind nextisIt, isIt34 its face to cell 4
Cell3Coefficients(P, nextisIt, isIt34, lambda) ==
    FluxCoefficients(lambda, intrinsicPermeability(P, outside(nextisIt)),
                     integrationOuterNormal(isIt34),
                     integrationOuterNormal(nextisIt),
                     Rot(VSub(cellCenter(outside(nextisIt)),
                              faceCenter(nextisIt))),
                     Rot(VSub(cellCenter(outside(nextisIt)),
                              faceCenter(isIt34))))

\* g114, g124, g214, g224: cell 4 with centre globalPos4, permeability K4
\* and mobility lambda4
Cell4Coefficients(globalPos4, K4, lambda4, isIt24, isIt34) ==
    FluxCoefficients(lambda4, K4,
                     integrationOuterNormal(isIt34),
                     integrationOuterNormal(isIt24),
                     Rot(VSub(globalPos4, faceCenter(isIt24))),
                     Rot(VSub(faceCenter(isIt34), globalPos4)))

----------------------------------------------------------------------------
(* Both isIt and nextisIt are interior faces: the region of four cells     *)

\* what the loop over the faces of a cell behind a face leaves in the
\* iterator that starts at ibegin(cell): the last face in matching
FaceOfCell(P, cell, matching) ==
    LET its == IntersectionsOfCell(P.gridImplementation, cell)
    IN  LastMatching(its, 4, {is \in {its[1], its[2], its[3], its[4]} :
                                  matching[is]}, its[1])

\* isIt24 (of == isIt) and isIt34 (of == nextisIt) in a region of four
\* cells: the interior face of the cell behind the face that holds
\* corner1234 and does not lead back to cell 1
InnerFace(P, of, isIt, nextisIt) ==
    FaceOfCell(P, outside(of),
               [is \in {Intersection(outside(of), i) : i \in 0..3} |->
                    /\ neighbor(is)
                    /\ outside(is) # isIt.inside
                    /\ hasCorner(is, corner1234Of(isIt, nextisIt))])

RECURSIVE Cell4Search(_, _, _, _)
\* globalIdx4, globalPos4, K4 and lambda4 after the first k passes of the
\* double loop over the faces of cell 2 and of cell 3, which looks for
\* their common neighbour other than cell 1
Cell4Search(P, isIt, nextisIt, k) ==
    IF k = 0
    THEN [globalIdx4 |-> 0, globalPos4 |-> QVec(0, 0),
          K4 |-> << QVec(0, 0), QVec(0, 0) >>, lambda4 |-> QZero]
    ELSE LET before == Cell4Search(P, isIt, nextisIt, k - 1)
             innerisIt ==
                 IntersectionsOfCell(P.gridImplementation,
                                     outside(isIt))[((k - 1) \div 4) + 1]
             innernextisIt ==
                 IntersectionsOfCell(P.gridImplementation,
                                     outside(nextisIt))[((k - 1) % 4) + 1]
         IN  IF /\ neighbor(innerisIt)
                /\ neighbor(innernextisIt)
                /\ outside(innerisIt) = outside(innernextisIt)
                /\ outside(innerisIt) # isIt.inside
             THEN [globalIdx4 |-> outside(innerisIt),
                   globalPos4 |-> cellCenter(outside(innerisIt)),
                   K4 |-> MatAdd(before.K4,
                                 intrinsicPermeability(P, outside(innerisIt))),
                   lambda4 |-> totalMobility(P, outside(innerisIt))]
             ELSE before

\* F + B * (C * A^-1): the product taken in the other order
TransmissibilityOtherOrder(A, B, C, F) ==
    MatAdd(F, MatMul(B, MatMul(C, invert(A))))

\* T = F + B.leftmultiply(C.rightmultiply(A)) after A.invert()
Transmissibility(A, B, C, F) ==
    MatAdd(F, leftmultiply(B, rightmultiply(C, invert(A))))

\* lines 550-587: the matrices of a region of four cells from the flux
\* coefficients g1 .. g4 of its cells
MatrixC(g1, g2, g3, g4) ==
    LET O == QZero
    IN  << << QNeg(g1.g11), O, QNeg(g1.g12), O >>,
           << O, g4.g11, O, g4.g12 >>,
           << O, QNeg(g3.g21), g3.g22, O >>,
           << g2.g21, O, O, QNeg(g2.g22) >> >>

MatrixF(g1, g2, g3, g4) ==
    LET O == QZero
    IN  << << g1.g11 ++ g1.g12, O, O, O >>,
           << O, O, O, QNeg(g4.g11) -- g4.g12 >>,
           << O, O, g3.g21 -- g3.g22, O >>,
           << O, QNeg(g2.g21) ++ g2.g22, O, O >> >>

MatrixA(g1, g2, g3, g4) ==
    LET O == QZero
    IN  << << g1.g11 ++ g2.g11, O, g1.g12, QNeg(g2.g12) >>,
           << O, g4.g11 ++ g3.g11, QNeg(g3.g12), g4.g12 >>,
           << g1.g21, QNeg(g3.g21), g3.g22 ++ g1.g22, O >>,
           << QNeg(g2.g21), g4.g21, O, g2.g22 ++ g4.g22 >> >>

\* B with the entry of row 1 for cell 2 as g112 + g122
MatrixBOtherSign(g1, g2, g3, g4) ==
    LET O == QZero
    IN  << << g1.g11 ++ g1.g12, g2.g11 ++ g2.g12, O, O >>,
           << O, O, g3.g11 -- g3.g12, g4.g11 ++ g4.g12 >>,
           << g1.g21 ++ g1.g22, O, QNeg(g3.g21) ++ g3.g22, O >>,
           << O, QNeg(g2.g21) ++ g2.g22, O, g4.g21 ++ g4.g22 >> >>

MatrixB(g1, g2, g3, g4) ==
    LET O == QZero
    IN  << << g1.g11 ++ g1.g12, g2.g11 -- g2.g12, O, O >>,
           << O, O, g3.g11 -- g3.g12, g4.g11 ++ g4.g12 >>,
           << g1.g21 ++ g1.g22, O, QNeg(g3.g21) ++ g3.g22, O >>,
           << O, QNeg(g2.g21) ++ g2.g22, O, g4.g21 ++ g4.g22 >> >>

\* lines 550-587: the matrices of the region, its pressures u and its
\* cells, from the flux coefficients of the four cells
FourCellMatrices(P, g1, g2, g3, g4, cells) ==
    [A |-> MatrixA(g1, g2, g3, g4), B |-> MatrixB(g1, g2, g3, g4),
     C |-> MatrixC(g1, g2, g3, g4), F |-> MatrixF(g1, g2, g3, g4),
     u |-> << P.pressure[cells[1]], P.pressure[cells[2]],
              P.pressure[cells[3]], P.pressure[cells[4]] >>,
     cells |-> cells]

\* lines 473-547: the flux coefficients of the four cells, with isIt24,
\* isIt34 and cell 4 as the loops over the faces of cell 2 and cell 3
\* found them
FourCellCoefficients(P, c, isIt, nextisIt, isIt24, isIt34, cell4) ==
    FourCellMatrices(
        P,
        Cell1Coefficients(P, c, isIt, nextisIt, totalMobility(P, c)),
        Cell2Coefficients(P, isIt, isIt24, totalMobility(P, outside(isIt))),
        Cell3Coefficients(P, nextisIt, isIt34,
                          totalMobility(P, outside(nextisIt))),
        Cell4Coefficients(cell4.globalPos4, cell4.K4, cell4.lambda4,
                          isIt24, isIt34),
        << c, outside(isIt), outside(nextisIt), cell4.globalIdx4 >>)

\* lines 330-614: the matrices and the pressures of the region of four
\* cells around the corner isIt and nextisIt share
FourCellRegion(P, c, isIt, nextisIt) ==
    FourCellCoefficients(P, c, isIt, nextisIt,
                         InnerFace(P, isIt, isIt, nextisIt),
                         InnerFace(P, nextisIt, isIt, nextisIt),
                         Cell4Search(P, isIt, nextisIt, 16))

\* the fluxes of a region of four cells with Tu[3] given to nextisIt
TransmissibilityFluxesOtherRow(region, T) ==
    LET u == Tuple([k \in 1..4 |-> QInt(region.u[k])], 4)
        Tu == Umv(T, u)
    IN  [path |-> "interior-interior",
         T |-> T, A |-> region.A, B |-> region.B, C |-> region.C,
         F |-> region.F, u |-> u, Tu |-> Tu, cells |-> region.cells,
         onIsItNeumann |-> << >>,
         onIsIt |-> << Tu[1] >>, onNextisIt |-> << Tu[4] >>]

\* lines 594-612: T.umv(u, Tu); Tu[0] goes to isIt and Tu[2] to nextisIt
TransmissibilityFluxes(region, T) ==
    \* the pressures of the model are integers: u holds them as Scalars
    LET u == Tuple([k \in 1..4 |-> QInt(region.u[k])], 4)
        Tu == Umv(T, u)
    IN  [path |-> "interior-interior",
         T |-> T, A |-> region.A, B |-> region.B, C |-> region.C,
         F |-> region.F, u |-> u, Tu |-> Tu, cells |-> region.cells,
         onIsItNeumann |-> << >>,
         onIsIt |-> << Tu[1] >>, onNextisIt |-> << Tu[3] >>]

\* lines 589-612: the transmissibility matrix of a region and its fluxes
RegionTransmissibility(region) ==
    TransmissibilityFluxes(region,
                           Transmissibility(region.A, region.B, region.C,
                                            region.F))

\* the fluxes of the region of four cells of the pair (isIt, nextisIt)
FourCellFluxes(P, c, isIt, nextisIt) ==
    RegionTransmissibility(FourCellRegion(P, c, isIt, nextisIt))

----------------------------------------------------------------------------
(* isIt is an interior face, nextisIt is on the boundary                   *)

\* isIt24 or isIt34 next to the boundary: the boundary face of the cell
\* behind the face that holds corner1234
BoundaryFace(P, of, isIt, nextisIt) ==
    FaceOfCell(P, outside(of),
               [is \in {Intersection(outside(of), i) : i \in 0..3} |->
                    /\ boundary(is)
                    /\ hasCorner(is, corner1234Of(isIt, nextisIt))])

\* lines 743-746: A.invert(); B.leftmultiply(A) leaves T in B;
\* A.umv(r1, r)
InvertedSystem(Ainv, B, r1) ==
    [T |-> leftmultiply(B, Ainv), r |-> Umv(Ainv, r1)]

LinearSystem(A, B, r1) == InvertedSystem(invert(A), B, r1)

\* f1 of lines 749 and 875, from T and r of the local system
InteriorNeumannF1(coef1, sys, press1, press2) ==
    LET g111 == coef1.g11  g121 == coef1.g12
        T == sys.T
        r == sys.r
    IN  ((g111 ++ g121 -- g111 ** T[1][1] -- g121 ** T[2][1]) ** press1)
            -- ((g111 ** T[1][2] ++ g121 ** T[2][2]) ** press2)
            -- (g111 ** r[1] ++ g121 ** r[2])

\* lines 673-757: Neumann conditions on nextisIt and on isIt24
InteriorNeumannNeumann(coef1, coef2, press1, press2, J3, J4, nextisIt, isIt24) ==
    LET O == QZero
        g111 == coef1.g11  g121 == coef1.g12
        g211 == coef1.g21  g221 == coef1.g22
        g112 == coef2.g11  g122 == coef2.g12
        g212 == coef2.g21  g222 == coef2.g22
        A == << << g111 ++ g112, g121, QNeg(g122) >>,
                << g211, g221, O >>,
                << QNeg(g212), O, g222 >> >>
        B == << << g111 ++ g121, g112 -- g122 >>,
                << g211 ++ g221, O >>,
                << O, g222 -- g212 >> >>
        r1 == << O,
                 (QNeg(J3) ** faceVolume(nextisIt)) ** QHalf,
                 (QNeg(J4) ** faceVolume(isIt24)) ** QHalf >>
    IN  [path |-> "interior-neumann-neumann",
         onIsItNeumann |-> << >>,
         onIsIt |-> << InteriorNeumannF1(coef1, LinearSystem(A, B, r1),
                                         press1, press2) >>,
         onNextisIt |-> << >>]

\* lines 759-883: a Neumann condition on nextisIt, the pressure g4 on isIt24
InteriorNeumannDirichlet(coef1, coef2, press1, press2, J3, g4, nextisIt) ==
    LET O == QZero
        g111 == coef1.g11  g121 == coef1.g12
        g211 == coef1.g21  g221 == coef1.g22
        g112 == coef2.g11  g122 == coef2.g12
        A == << << g111 ++ g112, g121 >>, << g211, g221 >> >>
        B == << << g111 ++ g121, g112 -- g122 >>,
                << g211 ++ g221, O >> >>
        r1 == << g122 ** g4,
                 (QNeg(J3) ** faceVolume(nextisIt)) ** QHalf >>
    IN  [path |-> "interior-neumann-dirichlet",
         onIsItNeumann |-> << >>,
         onIsIt |-> << InteriorNeumannF1(coef1, LinearSystem(A, B, r1),
                                         press1, press2) >>,
         onNextisIt |-> << >>]

\* f1 and f3 of lines 1011-1014, from T and r of the local system
InteriorDirichletNeumannFlux(coef1, sys, press1, press2, g3) ==
    LET g111 == coef1.g11  g121 == coef1.g12
        g211 == coef1.g21  g221 == coef1.g22
        T == sys.T
        r == sys.r
        f1 == ((g111 ++ g121 -- g111 ** T[1][1]) ** press1)
              -- ((g111 ** T[1][2]) ** press2)
              -- g121 ** g3 -- g111 ** r[1]
        f3 == ((g211 ++ g221 -- g211 ** T[1][1]) ** press1)
              -- ((g211 ** T[1][2]) ** press2)
              -- g221 ** g3 -- g211 ** r[1]
    IN  [path |-> "interior-dirichlet-neumann",
         onIsItNeumann |-> << >>,
         onIsIt |-> << f1 >>, onNextisIt |-> << f3 >>]

\* lines 940-1026: the pressure g3 on nextisIt, a Neumann condition on isIt24
InteriorDirichletNeumann(coef1, coef2, press1, press2, g3, J4, isIt24) ==
    LET O == QZero
        g111 == coef1.g11  g121 == coef1.g12
        g112 == coef2.g11  g122 == coef2.g12
        g212 == coef2.g21  g222 == coef2.g22
        A == << << g111 ++ g112, QNeg(g122) >>,
                << QNeg(g212), g222 >> >>
        B == << << g111 ++ g121, g112 -- g122 >>,
                << O, g222 -- g212 >> >>
        r1 == << QNeg(g121) ** g3,
                 (QNeg(J4) ** faceVolume(isIt24)) ** QHalf >>
    IN  InteriorDirichletNeumannFlux(coef1, LinearSystem(A, B, r1),
                                     press1, press2, g3)

\* lines 1136-1137 and 1946-1947: f1 = T[0][0] press1 + T[0][1] pressB + r[0],
\* f3 = T[1][0] press1 + T[1][1] pressB + r[1], with pressB the pressure of
\* the other cell of the region
DirectFluxes(path, T, r, press1, pressB) ==
    [path |-> path,
     onIsItNeumann |-> << >>,
     onIsIt |-> << T[1][1] ** press1 ++ T[1][2] ** pressB ++ r[1] >>,
     onNextisIt |-> << T[2][1] ** press1 ++ T[2][2] ** pressB ++ r[2] >>]

\* lines 1028-1149: the pressures g3 on nextisIt and g4 on isIt24
InteriorDirichletDirichlet(coef1, coef2, press1, press2, g3, g4) ==
    LET g111 == coef1.g11  g121 == coef1.g12
        g211 == coef1.g21  g221 == coef1.g22
        g112 == coef2.g11  g122 == coef2.g12
        coe == g111 ++ g112
        T == << << (g112 ** (g111 ++ g121)) // coe,
                   (QNeg(g111) ** (g112 -- g122)) // coe >>,
                << g221 ++ ((g211 ** (g112 -- g121)) // coe),
                   (QNeg(g211) ** (g112 -- g122)) // coe >> >>
        r == << QNeg((g4 ** g122 ** g111 ++ g3 ** g112 ** g121) // coe),
                QNeg(g221) ** g3
                    ++ ((g3 ** g211 ** g121 -- g4 ** g211 ** g122) // coe) >>
    IN  DirectFluxes("interior-dirichlet-dirichlet", T, r, press1, press2)

\* lines 643-1151: the boundary conditions on nextisIt and on isIt24 choose
\* the local system
InteriorBoundaryCases(P, c, isIt, nextisIt, isIt24) ==
    LET nextIsItBcType == boundaryTypes(P, nextisIt)
        isIt24BcType == boundaryTypes(P, isIt24)
        press1 == QInt(P.pressure[c])
        press2 == QInt(P.pressure[outside(isIt)])
        lambda1 == totalMobility(P, c)
        lambda2 == totalMobility(P, outside(isIt))
        J3 == neumannFlux(P, c, nextisIt)
        J4 == neumannFlux(P, c, isIt24)
        g3 == problemDirichletOf(P, nextisIt).pressure
        g4 == problemDirichletOf(P, isIt24).pressure
        alambda1 == boundaryMobility(P, nextIsItBcType,
                                     problemDirichletOf(P, nextisIt), lambda1)
        alambda2 == boundaryMobility(P, isIt24BcType,
                                     problemDirichletOf(P, isIt24), lambda2)
    IN  IF isNeumannPress(nextIsItBcType)
        THEN IF isNeumannPress(isIt24BcType)
             THEN InteriorNeumannNeumann(
                      Cell1Coefficients(P, c, isIt, nextisIt, lambda1),
                      Cell2Coefficients(P, isIt, isIt24, lambda2),
                      press1, press2, J3, J4, nextisIt, isIt24)
             ELSE IF isDirichletPress(isIt24BcType)
             THEN InteriorNeumannDirichlet(
                      Cell1Coefficients(P, c, isIt, nextisIt, lambda1),
                      Cell2Coefficients(P, isIt, isIt24, alambda2),
                      press1, press2, J3, g4, nextisIt)
             ELSE [path |-> "interior-neumann-none",
                   onIsItNeumann |-> << >>,
                   onIsIt |-> << >>, onNextisIt |-> << >>]
        ELSE IF isDirichletPress(nextIsItBcType)
        THEN IF isNeumannPress(isIt24BcType)
             THEN InteriorDirichletNeumann(
                      Cell1Coefficients(P, c, isIt, nextisIt, alambda1),
                      Cell2Coefficients(P, isIt, isIt24, lambda2),
                      press1, press2, g3, J4, isIt24)
             ELSE IF isDirichletPress(isIt24BcType)
             THEN InteriorDirichletDirichlet(
                      Cell1Coefficients(P, c, isIt, nextisIt, alambda1),
                      Cell2Coefficients(P, isIt, isIt24, alambda2),
                      press1, press2, g3, g4)
             ELSE [path |-> "interior-dirichlet-none",
                   onIsItNeumann |-> << >>,
                   onIsIt |-> << >>, onNextisIt |-> << >>]
        ELSE [path |-> "interior-none",
              onIsItNeumann |-> << >>,
              onIsIt |-> << >>, onNextisIt |-> << >>]

\* lines 616-1151: isIt24 is the boundary face of cell 2 at corner1234
InteriorBoundaryFluxes(P, c, isIt, nextisIt) ==
    InteriorBoundaryCases(P, c, isIt, nextisIt,
                          BoundaryFace(P, isIt, isIt, nextisIt))

----------------------------------------------------------------------------
(* isIt is on the boundary                                                 *)

\* lines 1408-1421: C.rightmultiply(A) after A.invert() leaves C A^-1;
\* F += B.leftmultiply(CAinv) leaves T in F; CAinv.umv(r1, r)
ReducedSystem(CAinv, B, F, r1) ==
    [T |-> MatAdd(F, leftmultiply(B, CAinv)), r |-> Umv(CAinv, r1)]

EliminatedSystem(A, B, C, F, r1) ==
    ReducedSystem(rightmultiply(C, invert(A)), B, F, r1)

\* lines 1181-1266: a Neumann condition on isIt, the pressure g3 on the
\* boundary face nextisIt
NeumannBoundaryDirichlet(coef1, press1, g3, J1, face12vol) ==
    LET g111 == coef1.g11  g121 == coef1.g12
        g211 == coef1.g21  g221 == coef1.g22
        Two == QInt(2)
        f3 == ((g221 -- ((g211 ** g121) // g111)) ** press1)
              ++ ((((g211 ** g121) // g111) -- g221) ** g3)
              -- ((g211 ** QNeg(J1) ** face12vol) // (Two ** g111))
    IN  [path |-> "neumann-boundary-dirichlet",
         onIsItNeumann |-> << J1 >>,
         onIsIt |-> << >>, onNextisIt |-> << f3 >>]

\* f3 of line 1424, from T and r of the local system
NeumannInteriorNeumannF3(sys, press1, press3) ==
    sys.T[3][1] ** press1 ++ sys.T[3][2] ** press3 ++ sys.r[3]

\* lines 1332-1431: Neumann conditions on isIt and on isIt34
NeumannInteriorNeumann(coef1, coef3, press1, press3, J1, J2, face12vol, isIt34) ==
    LET O == QZero
        g111 == coef1.g11  g121 == coef1.g12
        g211 == coef1.g21  g221 == coef1.g22
        g113 == coef3.g11  g123 == coef3.g12
        g213 == coef3.g21  g223 == coef3.g22
        C == << << QNeg(g111), O, QNeg(g121) >>,
                << O, QNeg(g113), g123 >>,
                << O, QNeg(g213), g223 >> >>
        F == << << g111 ++ g121, O >>,
                << O, g113 -- g123 >>,
                << O, g213 -- g223 >> >>
        A == << << g111, O, g121 >>,
                << O, g113, QNeg(g123) >>,
                << g211, QNeg(g213), g223 ++ g221 >> >>
        B == << << g111 ++ g121, O >>,
                << O, g113 -- g123 >>,
                << g211 ++ g221, g223 -- g213 >> >>
        r1 == << (QNeg(J1) ** face12vol) ** QHalf,
                 (QNeg(J2) ** faceVolume(isIt34)) ** QHalf,
                 O >>
    IN  [path |-> "neumann-interior-neumann",
         onIsItNeumann |-> << J1 >>,
         onIsIt |-> << >>,
         onNextisIt |-> << NeumannInteriorNeumannF3(
                               EliminatedSystem(A, B, C, F, r1),
                               press1, press3) >>]

\* r += r1 and f3 of lines 1560-1563, from T and r of the local system
NeumannInteriorDirichletF3(sys, r1, press1, press3) ==
    sys.T[2][1] ** press1 ++ sys.T[2][2] ** press3 ++ VAdd(sys.r, r1)[2]

\* lines 1433-1570: a Neumann condition on isIt, the pressure g2 on isIt34
NeumannInteriorDirichlet(coef1, coef3, press1, press3, J1, g2, face12vol) ==
    LET O == QZero
        g111 == coef1.g11  g121 == coef1.g12
        g211 == coef1.g21  g221 == coef1.g22
        g213 == coef3.g21  g223 == coef3.g22
        C == << << QNeg(g111), QNeg(g121) >>,
                << O, g223 >> >>
        F == << << g111 ++ g121, O >>,
                << O, g213 -- g223 >> >>
        A == << << g111, g121 >>,
                << g211, g223 ++ g221 >> >>
        B == << << g111 ++ g121, O >>,
                << g211 ++ g221, g223 -- g213 >> >>
        r1 == << O, QNeg(g213) ** g2 >>
        r2 == << (QNeg(J1) ** face12vol) ** QHalf,
                 g213 ** g2 >>
    IN  [path |-> "neumann-interior-dirichlet",
         onIsItNeumann |-> << J1 >>,
         onIsIt |-> << >>,
         onNextisIt |-> << NeumannInteriorDirichletF3(
                               EliminatedSystem(A, B, C, F, r2), r1,
                               press1, press3) >>]

\* lines 1269-1572: nextisIt is an interior face; the boundary condition on
\* isIt34 chooses the local system
NeumannInteriorCases(P, c, isIt, nextisIt, isIt34) ==
    LET press1 == QInt(P.pressure[c])
        press3 == QInt(P.pressure[outside(nextisIt)])
        lambda1 == totalMobility(P, c)
        lambda3 == totalMobility(P, outside(nextisIt))
        J1 == neumannFlux(P, c, isIt)
        face12vol == faceVolume(isIt)
        isIt34BcType == boundaryTypes(P, isIt34)
    IN  IF isNeumannPress(isIt34BcType)
        THEN NeumannInteriorNeumann(
                 Cell1Coefficients(P, c, isIt, nextisIt, lambda1),
                 Cell3Coefficients(P, nextisIt, isIt34, lambda3),
                 press1, press3, J1, neumannFlux(P, c, isIt34), face12vol,
                 isIt34)
        ELSE IF isDirichletPress(isIt34BcType)
        THEN NeumannInteriorDirichlet(
                 Cell1Coefficients(P, c, isIt, nextisIt, lambda1),
                 Cell3Coefficients(
                     P, nextisIt, isIt34,
                     boundaryMobility(P, isIt34BcType,
                                      problemDirichletOf(P, isIt34),
                                      lambda3)),
                 press1, press3, J1, problemDirichletOf(P, isIt34).pressure,
                 face12vol)
        ELSE [path |-> "neumann-interior-none",
              onIsItNeumann |-> << J1 >>,
              onIsIt |-> << >>, onNextisIt |-> << >>]

\* lines 1163-1572: a Neumann condition on isIt.  The prescribed flux J1
\* goes to isIt whatever nextisIt is (onIsItNeumann)
NeumannBoundaryFluxes(P, c, isIt, nextisIt) ==
    LET press1 == QInt(P.pressure[c])
        lambda1 == totalMobility(P, c)
        J1 == neumannFlux(P, c, isIt)
        face12vol == faceVolume(isIt)
    IN  IF boundary(nextisIt)
        THEN LET nextIsItBcType == boundaryTypes(P, nextisIt)
                 boundValues == problemDirichletOf(P, nextisIt)
                 alambda1 == boundaryMobility(P, nextIsItBcType, boundValues,
                                              lambda1)
             IN  IF isDirichletPress(nextIsItBcType)
                 THEN NeumannBoundaryDirichlet(
                          Cell1Coefficients(P, c, isIt, nextisIt, alambda1),
                          press1, boundValues.pressure, J1, face12vol)
                 ELSE [path |-> "neumann-boundary-other",
                       onIsItNeumann |-> << J1 >>,
                       onIsIt |-> << >>, onNextisIt |-> << >>]
        ELSE NeumannInteriorCases(P, c, isIt, nextisIt,
                                  BoundaryFace(P, nextisIt, isIt, nextisIt))

\* lines 1635-1730: the pressures g1 on isIt and g3 on the boundary face
\* nextisIt
DirichletBoundaryDirichlet(coef1, press1, g1, g3) ==
    LET g111 == coef1.g11  g121 == coef1.g12
        g211 == coef1.g21  g221 == coef1.g22
        T1 == g111 ++ g121
        T3 == g211 ++ g221
        r1 == g111 ** g1 ++ g121 ** g3
        r3 == g211 ** g1 ++ g221 ** g3
        f1 == T1 ** press1 -- r1
        f3 == T3 ** press1 -- r3
    IN  [path |-> "dirichlet-boundary-dirichlet",
         onIsItNeumann |-> << >>,
         onIsIt |-> << f1 >>, onNextisIt |-> << f3 >>]

\* T press1 + r of line 1765
ScalarFlux(path, T, r, press1) ==
    [path |-> path, onIsItNeumann |-> << >>,
     onIsIt |-> << T ** press1 ++ r >>, onNextisIt |-> << >>]

\* lines 1732-1772: the pressure g1 on isIt, a Neumann condition on the
\* boundary face nextisIt
DirichletBoundaryNeumann(coef1, press1, g1, J3, nextisIt) ==
    LET g111 == coef1.g11  g121 == coef1.g12
        g211 == coef1.g21  g221 == coef1.g22
        Two == QInt(2)
        T == g111 -- ((g211 ** g121) // g221)
    IN  ScalarFlux("dirichlet-boundary-neumann", T,
                   QNeg(T) ** g1
                       -- ((g121 ** QNeg(J3) ** faceVolume(nextisIt))
                               // (Two ** g221)),
                   press1)

\* lines 1838-1959: the pressures g1 on isIt and g2 on isIt34
DirichletInteriorDirichlet(coef1, coef3, press1, press3, g1, g2) ==
    LET g111 == coef1.g11  g121 == coef1.g12
        g211 == coef1.g21  g221 == coef1.g22
        g213 == coef3.g21  g223 == coef3.g22
        coe == g221 ++ g223
        T == << << g111 ++ ((g121 ** (g223 -- g211)) // coe),
                   (QNeg(g121) ** (g223 -- g213)) // coe >>,
                << (g223 ** (g211 ++ g221)) // coe,
                   (QNeg(g221) ** (g223 -- g213)) // coe >> >>
        r == << QNeg(g111) ** g1
                    ++ ((g1 ** g121 ** g211 -- g2 ** g213 ** g121) // coe),
                QNeg((g1 ** g211 ** g223 ++ g2 ** g221 ** g213) // coe) >>
    IN  DirectFluxes("dirichlet-interior-dirichlet", T, r, press1, press3)

\* f1 and f3 of lines 2032-2035, from T and r of the local system
DirichletInteriorNeumannFlux(coef1, sys, press1, press3, g1) ==
    LET g111 == coef1.g11  g121 == coef1.g12
        g211 == coef1.g21  g221 == coef1.g22
        T == sys.T
        r == sys.r
        f1 == ((g111 ++ g121 -- g121 ** T[2][1]) ** press1)
              -- ((g121 ** T[2][2]) ** press3)
              -- (g111 ** g1 ++ g121 ** r[2])
        f3 == ((g211 ++ g221 -- g221 ** T[2][1]) ** press1)
              -- ((g221 ** T[2][2]) ** press3)
              -- (g211 ** g1 ++ g221 ** r[2])
    IN  [path |-> "dirichlet-interior-neumann",
         onIsItNeumann |-> << >>,
         onIsIt |-> << f1 >>, onNextisIt |-> << f3 >>]

\* lines 1961-2047: the pressure g1 on isIt, a Neumann condition on isIt34
DirichletInteriorNeumann(coef1, coef3, press1, press3, g1, J2, isIt34) ==
    LET O == QZero
        g211 == coef1.g21  g221 == coef1.g22
        g113 == coef3.g11  g123 == coef3.g12
        g213 == coef3.g21  g223 == coef3.g22
        A == << << g113, QNeg(g123) >>,
                << QNeg(g213), g221 ++ g223 >> >>
        B == << << O, g113 -- g123 >>,
                << g211 ++ g221, g223 -- g213 >> >>
        r1 == << (QNeg(J2) ** faceVolume(isIt34)) ** QHalf,
                 QNeg(g211) ** g1 >>
    IN  DirichletInteriorNeumannFlux(coef1, LinearSystem(A, B, r1),
                                     press1, press3, g1)

\* lines 1775-2049: nextisIt is an interior face; the boundary condition on
\* isIt34 chooses the local system
DirichletInteriorCases(P, c, isIt, nextisIt, isIt34) ==
    LET press1 == QInt(P.pressure[c])
        press3 == QInt(P.pressure[outside(nextisIt)])
        lambda1 == totalMobility(P, c)
        lambda3 == totalMobility(P, outside(nextisIt))
        g1 == problemDirichletOf(P, isIt).pressure
        alambda1 == boundaryMobility(P, boundaryTypes(P, isIt),
                                     problemDirichletOf(P, isIt), lambda1)
        isIt34BcType == boundaryTypes(P, isIt34)
    IN  IF isDirichletPress(isIt34BcType)
        THEN DirichletInteriorDirichlet(
                 Cell1Coefficients(P, c, isIt, nextisIt, alambda1),
                 Cell3Coefficients(
                     P, nextisIt, isIt34,
                     boundaryMobility(P, isIt34BcType,
                                      problemDirichletOf(P, isIt34),
                                      lambda3)),
                 press1, press3, g1, problemDirichletOf(P, isIt34).pressure)
        ELSE IF isNeumannPress(isIt34BcType)
        THEN DirichletInteriorNeumann(
                 Cell1Coefficients(P, c, isIt, nextisIt, alambda1),
                 Cell3Coefficients(P, nextisIt, isIt34, lambda3),
                 press1, press3, g1, neumannFlux(P, c, isIt34), isIt34)
        ELSE [path |-> "dirichlet-interior-none",
              onIsItNeumann |-> << >>,
              onIsIt |-> << >>, onNextisIt |-> << >>]

\* lines 1574-2049: a Dirichlet condition on isIt
DirichletBoundaryFluxes(P, c, isIt, nextisIt) ==
    LET press1 == QInt(P.pressure[c])
        lambda1 == totalMobility(P, c)
        isItBcType == boundaryTypes(P, isIt)
        g1 == problemDirichletOf(P, isIt).pressure
        alambda1 == boundaryMobility(P, isItBcType,
                                     problemDirichletOf(P, isIt), lambda1)
    IN  IF boundary(nextisIt)
        THEN LET nextIsItBcType == boundaryTypes(P, nextisIt)
                 boundValues == problemDirichletOf(P, nextisIt)
             IN  IF isDirichletPress(nextIsItBcType)
                 THEN \* this alambda1 hides the one of isIt
                      DirichletBoundaryDirichlet(
                          Cell1Coefficients(
                              P, c, isIt, nextisIt,
                              boundaryMobility(P, nextIsItBcType,
                                               boundValues, lambda1)),
                          press1, g1, boundValues.pressure)
                 ELSE IF isNeumannPress(nextIsItBcType)
                 THEN DirichletBoundaryNeumann(
                          Cell1Coefficients(P, c, isIt, nextisIt, alambda1),
                          press1, g1, neumannFlux(P, c, nextisIt), nextisIt)
                 ELSE [path |-> "dirichlet-boundary-none",
                       onIsItNeumann |-> << >>,
                       onIsIt |-> << >>, onNextisIt |-> << >>]
        ELSE DirichletInteriorCases(P, c, isIt, nextisIt,
                                    BoundaryFace(P, nextisIt, isIt, nextisIt))

----------------------------------------------------------------------------
(* calculateVelocity, one step per pass of its loops                       *)

\* the dispatch with the two branches for isIt on the boundary left out
RegionFluxesInteriorOnly(P, c, isIt, nextisIt) ==
    IF neighbor(isIt)
    THEN IF neighbor(nextisIt)
         THEN FourCellFluxes(P, c, isIt, nextisIt)
         ELSE InteriorBoundaryFluxes(P, c, isIt, nextisIt)
    ELSE [path |-> "none", onIsItNeumann |-> << >>,
          onIsIt |-> << >>, onNextisIt |-> << >>]

\* the fluxes of the pair (isIt, nextisIt) of cell c: exactly one of the
\* four topology cases (lines 307, 330, 616, 1154, 1175, 1269)
RegionFluxes(P, c, isIt, nextisIt) ==
    IF neighbor(isIt)
    THEN IF neighbor(nextisIt)
         THEN FourCellFluxes(P, c, isIt, nextisIt)
         ELSE InteriorBoundaryFluxes(P, c, isIt, nextisIt)
    ELSE IF isNeumannPress(boundaryTypes(P, isIt))
         THEN NeumannBoundaryFluxes(P, c, isIt, nextisIt)
         ELSE IF isDirichletPress(boundaryTypes(P, isIt))
              THEN DirichletBoundaryFluxes(P, c, isIt, nextisIt)
              ELSE [path |-> "none", onIsItNeumann |-> << >>,
                    onIsIt |-> << >>, onNextisIt |-> << >>]

\* vector = unitOuterNormal; vector *= f / faceVolume
FluxVector(is, f) == Scale(centerUnitOuterNormal(is), f // faceVolume(is))

\* vector1 *= J1 instead of -J1
NeumannVectorOtherSign(is, J1) == Scale(centerUnitOuterNormal(is), J1)

\* vector1 = unitOuterNormaln1; vector1 *= -J1, which is then subtracted
NeumannVector(is, J1) == Scale(centerUnitOuterNormal(is), QNeg(J1))

\* velocity()[globalIdx1][index] += vector, for every vector of vectors
AccumulateAssigning(vel, c, is, vectors) ==
    IF vectors = << >> THEN vel
    ELSE [vel EXCEPT ![c][is.indexInInside] = vectors[1]]

Accumulate(vel, c, is, vectors) ==
    IF vectors = << >> THEN vel
    ELSE [vel EXCEPT ![c][is.indexInInside] = VAdd(@, vectors[1])]

\* the velocity field after the statements of one pair (isIt, nextisIt)
ApplyRegion(vel, c, isIt, nextisIt, fluxes) ==
    LET v0 == IF fluxes.onIsItNeumann = << >> THEN vel
              ELSE [vel EXCEPT ![c][isIt.indexInInside] =
                        VSub(@, NeumannVector(isIt, fluxes.onIsItNeumann[1]))]
        v1 == Accumulate(v0, c, isIt,
                         IF fluxes.onIsIt = << >> THEN << >>
                         ELSE << FluxVector(isIt, fluxes.onIsIt[1]) >>)
    IN  Accumulate(v1, c, nextisIt,
                   IF fluxes.onNextisIt = << >> THEN << >>
                   ELSE << FluxVector(nextisIt, fluxes.onNextisIt[1]) >>)

\* the contributions of one pair, as fluxLog keeps them
LogRegion(flog, c, isIt, nextisIt, fluxes) ==
    LET corner == corner1234Of(isIt, nextisIt)
        entries(fs, kind) ==
            IF fs = << >> THEN << >>
            ELSE << [kind |-> kind, f |-> fs[1], corner |-> corner,
                     path |-> fluxes.path] >>
    IN  [flog EXCEPT
            ![c] = [i \in 0..3 |->
                       flog[c][i]
                           \o (IF i = isIt.indexInInside
                               THEN entries(fluxes.onIsItNeumann, "neumann")
                                        \o entries(fluxes.onIsIt, "flux")
                               ELSE << >>)
                           \o (IF i = nextisIt.indexInInside
                               THEN entries(fluxes.onNextisIt, "flux")
                               ELSE << >>)]]

ZeroVelocity == QVec(0, 0)

\* the velocity field a call finds
VelocityAtEntry(P) ==
    [c \in GridCells |-> [i \in 0..3 |->
        IF P.initialVelocity = 0 THEN ZeroVelocity ELSE QVec(1, 1)]]

\* lines 112-129: calculateVelocity is called on problem P
CalculateVelocity(P) ==
    /\ calc.pc = "idle"
    /\ calc' = [pc |-> "element", problem |-> P, eIt |-> 0]
    /\ velocity' = VelocityAtEntry(P)
    /\ potential' = [c \in GridCells |-> [i \in 0..3 |-> QZero]]
    /\ cout' = << >>
    /\ fluxLog' = [c \in GridCells |-> [i \in 0..3 |-> << >>]]

\* the loop of lines 162-165 running over the faces of every cell
ResetVelocityAllCells(vel, c) ==
    [k \in GridCells |-> [i \in 0..3 |-> ZeroVelocity]]

\* lines 131-176: the head of the loop over the cells
ResetVelocity(vel, c) == [vel EXCEPT ![c] = [i \in 0..3 |-> ZeroVelocity]]

BeginElement ==
    /\ calc.pc = "element"
    /\ velocity' = ResetVelocity(velocity, calc.eIt)
    /\ calc' = [pc |-> "intersection", problem |-> calc.problem,
                eIt |-> calc.eIt, isIt |-> 1]
    /\ UNCHANGED << potential, cout, fluxLog >>

\* lines 177-239 in the default case of the switch: Dune::NotImplemented
\* leaves calculateVelocity, which has no handler
ThrowNotImplemented ==
    /\ calc.pc = "intersection"
    /\ nextisItPosition(calc.problem.gridImplementation, calc.isIt) = 0
    /\ calc' = [pc |-> "thrown", problem |-> calc.problem,
                eIt |-> calc.eIt, isIt |-> calc.isIt,
                exception |-> "Dune::NotImplemented"]
    /\ UNCHANGED << velocity, potential, cout, fluxLog >>

\* lines 177-2051: one pass of the loop over the faces of the cell
ProcessIntersection ==
    /\ calc.pc = "intersection"
    /\ nextisItPosition(calc.problem.gridImplementation, calc.isIt) # 0
    /\ \E its \in {IntersectionsOfCell(calc.problem.gridImplementation,
                                       calc.eIt)} :
        \E isIt \in {its[calc.isIt]},
           nextisIt \in {its[nextisItPosition(
                                 calc.problem.gridImplementation,
                                 calc.isIt)]} :
         \E fluxes \in {RegionFluxes(calc.problem, calc.eIt, isIt,
                                     nextisIt)} :
            /\ velocity' = ApplyRegion(velocity, calc.eIt, isIt, nextisIt,
                                       fluxes)
            /\ fluxLog' = LogRegion(fluxLog, calc.eIt, isIt, nextisIt,
                                    fluxes)
            /\ calc' = [pc |-> IF calc.isIt = 4 THEN "check"
                               ELSE "intersection",
                        problem |-> calc.problem, eIt |-> calc.eIt,
                        isIt |-> IF calc.isIt = 4 THEN 4 ELSE calc.isIt + 1,
                        last |-> [isIt |-> isIt, nextisIt |-> nextisIt,
                                  fluxes |-> fluxes]]
    /\ UNCHANGED << potential, cout >>

\* velocity()[globalIdx1][i] * unitOuterNormal[i] * facevol[i]
FaceFlux(vel, c, i) ==
    Dot(vel[c][i], centerUnitOuterNormal(Intersection(c, i)))
        ** faceVolume(Intersection(c, i))

\* diff of lines 2064-2072
ConservationDiff(P, vel, c) ==
    LET source == problemSourceOf(P, c)
        q1 == source.w ++ source.n
        flux == [i \in 0..3 |-> FaceFlux(vel, c, i)]
    IN  QAbs(flux[0] ++ flux[1] ++ flux[2] ++ flux[3]
                -- q1 ** cellVolume(c))
            // (QAbs(flux[0]) ++ QAbs(flux[1]) ++ QAbs(flux[2])
                    ++ QAbs(flux[3]) ++ QAbs(q1 ** cellVolume(c)))

\* 1 / 1e-8
ToleranceInverse == 100000000

\* diff > 1e-8, for diff >= 0 or not a number
ExceedsTolerance(diff) ==
    diff.d # 0 /\ diff.n > 0 /\ diff.d \div diff.n < ToleranceInverse

\* lines 2062-2085: the local conservation check of cell c writes a
\* message or does nothing
ConservationCheckAborting(P, vel, c, out) ==
    IF dim = 2 /\ P.velocityFormulation = "vt"
          /\ ExceedsTolerance(ConservationDiff(P, vel, c))
    THEN [cout |-> Append(out, c), continue |-> FALSE]
    ELSE [cout |-> out, continue |-> TRUE]

ConservationCheck(P, vel, c, out) ==
    IF dim = 2 /\ P.velocityFormulation = "vt"
          /\ ExceedsTolerance(ConservationDiff(P, vel, c))
    THEN [cout |-> Append(out, c), continue |-> TRUE]
    ELSE [cout |-> out, continue |-> TRUE]

\* lines 2053-2086: the potentials of the cell, the conservation check and
\* the step to the next cell
EndElement ==
    /\ calc.pc = "check"
    /\ potential' =
           [potential EXCEPT ![calc.eIt] =
               [i \in 0..3 |->
                   Dot(velocity[calc.eIt][i],
                       centerUnitOuterNormal(Intersection(calc.eIt, i)))]]
    /\ \E check \in {ConservationCheck(calc.problem, velocity, calc.eIt,
                                       cout)} :
          /\ cout' = check.cout
          /\ calc' = [pc |-> IF check.continue /\ calc.eIt + 1 \in GridCells
                             THEN "element"
                             ELSE IF check.continue THEN "done"
                                  ELSE "aborted",
                      problem |-> calc.problem,
                      eIt |-> IF check.continue /\ calc.eIt + 1 \in GridCells
                              THEN calc.eIt + 1 ELSE calc.eIt]
    /\ UNCHANGED << velocity, fluxLog >>

NextVelocity ==
    \/ \E P \in Problems : CalculateVelocity(P)
    \/ BeginElement
    \/ ThrowNotImplemented
    \/ ProcessIntersection
    \/ EndElement

\* the evaluator of the box scheme is not used
SpecVelocity ==
    Init /\ [][/\ NextVelocity
               /\ UNCHANGED << residualVars, timeVars, restartVars,
                               assembleVars >>]_vars

----------------------------------------------------------------------------
(* Properties of calculateVelocity                                         *)

SupportedGrids == {"sGrid", "yaspGrid", "ugGrid"}

NoFluxAccumulated ==
    \A c \in GridCells : \A i \in 0..3 : fluxLog[c][i] = << >>

\* C11: on a grid whose implementation is none of SGrid, YaspGrid and
\* UGGrid, the first pass of the loop over the faces of the first cell
\* leaves calculateVelocity with Dune::NotImplemented, which nothing in
\* calculateVelocity catches, and no flux has been added to the velocity
\* field by then: the field is the one found at entry, but for the zeroes
\* written to the entries of the first cell.
C11_UnsupportedGridThrows ==
    [][(calc'.pc # "idle"
          /\ calc'.problem.gridImplementation \notin SupportedGrids)
        => /\ calc'.pc \in {"element", "intersection", "thrown"}
           /\ calc'.eIt = 0
           /\ NoFluxAccumulated'
           /\ velocity' \in {VelocityAtEntry(calc'.problem),
                             ResetVelocity(VelocityAtEntry(calc'.problem),
                                           0)}
           /\ (calc.pc = "intersection"
                 => /\ calc'.pc = "thrown"
                    /\ calc'.exception = "Dune::NotImplemented"
                    /\ calc'.isIt = 1)]_vars

C11_Witness ==
    /\ calc.pc = "thrown"
    /\ calc.problem.gridImplementation \notin SupportedGrids
    /\ calc.problem.initialVelocity = 1
    /\ NoFluxAccumulated

\* the conservation check of cell c runs (dim == 2, total velocity) and
\* finds a relative difference above 1e-8
CheckFails(P, vel, c) ==
    /\ dim = 2
    /\ P.velocityFormulation = "vt"
    /\ ExceedsTolerance(ConservationDiff(P, vel, c))

\* C12: the local conservation check is diagnostic only.  The step that
\* ends a cell writes one message when the check runs and the relative
\* difference exceeds 1e-8, and none otherwise; in both cases the velocity
\* field stays as it is, the potentials of the cell become velocity times
\* unit outer normal, and the traversal goes on with the next cell (or
\* ends after the last one) exactly as when the check passes.
C12_CheckIsDiagnostic ==
    [][calc.pc = "check"
        => /\ cout' = IF CheckFails(calc.problem, velocity, calc.eIt)
                      THEN Append(cout, calc.eIt) ELSE cout
           /\ velocity' = velocity
           /\ fluxLog' = fluxLog
           /\ potential' =
                  [potential EXCEPT ![calc.eIt] =
                      [i \in 0..3 |->
                          Dot(velocity[calc.eIt][i],
                              centerUnitOuterNormal(
                                  Intersection(calc.eIt, i)))]]
           /\ calc' = IF calc.eIt + 1 \in GridCells
                      THEN [pc |-> "element", problem |-> calc.problem,
                            eIt |-> calc.eIt + 1]
                      ELSE [pc |-> "done", problem |-> calc.problem,
                            eIt |-> calc.eIt]]_vars

\* a call that ended after the check failed on some cells and passed on
\* others
C12_Witness ==
    /\ calc.pc = "done"
    /\ cout # << >>
    /\ Len(cout) < NX * NY
    /\ cout[1] = 0

\* the last pair of faces processed was a region of four cells
LastIsFourCell ==
    /\ calc.pc \in {"intersection", "check"}
    /\ "last" \in DOMAIN calc
    /\ calc.last.fluxes.path = "interior-interior"

\* the sum of row i of a matrix with four columns
RowSum(M, i) == QSum(M[i], 4)

\* C13: in a region of four cells whose matrix A is invertible, the row
\* sums of A equal those of B and the row sums of C are the negatives of
\* those of F, so every row of T sums to zero; with the same pressure in
\* the four cells all four half-face fluxes T*u are exactly zero (in exact
\* arithmetic).
C13_UniformPressureNoFlux ==
    (LastIsFourCell /\ Det(calc.last.fluxes.A) # QZero)
        => LET r == calc.last.fluxes
           IN  /\ \A i \in 1..4 :
                     /\ RowSum(r.A, i) = RowSum(r.B, i)
                     /\ RowSum(r.C, i) = QNeg(RowSum(r.F, i))
                     /\ RowSum(r.T, i) = QZero
               /\ (r.u[1] = r.u[2] /\ r.u[2] = r.u[3] /\ r.u[3] = r.u[4])
                     => /\ r.Tu = << QZero, QZero, QZero, QZero >>
                        /\ r.onIsIt = << QZero >>
                        /\ r.onNextisIt = << QZero >>

\* a region of four cells of different permeabilities with the same
\* pressure, different from zero, in its cells
C13_Witness ==
    /\ LastIsFourCell
    /\ Det(calc.last.fluxes.A) # QZero
    /\ calc.problem.medium = 2
    /\ calc.last.fluxes.u = << QInt(1), QInt(1), QInt(1), QInt(1) >>
    /\ calc.last.fluxes.T[1][1] # QZero

RECURSIVE SumOfFluxes(_)
\* the sum of the fluxes of a sequence of contributions
SumOfFluxes(contributions) ==
    IF contributions = << >> THEN QZero
    ELSE contributions[1].f ++ SumOfFluxes(Tail(contributions))

\* the local index that the face with local index i has in the cell
\* behind it
indexInOutside(i) == IF i % 2 = 0 THEN i + 1 ELSE i - 1

\* the flux accumulated for face i of cell c
AccumulatedFlux(c, i) == SumOfFluxes(fluxLog[c][i])

RegionPressures ==
    LET cells == calc.last.fluxes.cells
    IN  << QInt(calc.problem.pressure[cells[1]]),
           QInt(calc.problem.pressure[cells[2]]),
           QInt(calc.problem.pressure[cells[3]]),
           QInt(calc.problem.pressure[cells[4]]) >>

\* C15: in a region of four cells the transmissibility matrix is
\* T = F + (C * A^-1) * B, with A, B, C, F the 4x4 matrices of the flux
\* coefficients, and the fluxes are T applied to u = [p1, p2, p3, p4]:
\* entry 0 is the flux through the half of isIt and entry 2 the flux
\* through the half of nextisIt.
C15_TransmissibilityMatrix ==
    LastIsFourCell
        => LET r == calc.last.fluxes
           IN  /\ r.T = MatAdd(r.F, MatMul(MatMul(r.C, invert(r.A)), r.B))
               /\ r.u = RegionPressures
               /\ r.Tu = Umv(r.T, r.u)
               /\ r.onIsIt = << r.Tu[1] >>
               /\ r.onNextisIt = << r.Tu[3] >>

\* the statement with the product in the order B * (C * A^-1)
C15_ProductInClaimedOrder ==
    LastIsFourCell
        => LET r == calc.last.fluxes
           IN  r.T = MatAdd(r.F, MatMul(r.B, MatMul(r.C, invert(r.A))))

\* a region of four cells of different permeabilities, where the two
\* orders of the product differ, with pressures that are not all equal
C15_Witness ==
    /\ LastIsFourCell
    /\ calc.problem.medium = 2
    /\ Det(calc.last.fluxes.A) # QZero
    /\ MatMul(calc.last.fluxes.B,
              MatMul(calc.last.fluxes.C, invert(calc.last.fluxes.A)))
          # MatMul(MatMul(calc.last.fluxes.C, invert(calc.last.fluxes.A)),
                   calc.last.fluxes.B)
    /\ calc.last.fluxes.u[1] # calc.last.fluxes.u[4]
    /\ calc.last.fluxes.Tu[1] # QZero

\* what one logged contribution adds to the velocity entry of face i of
\* cell c: unitOuterNormal * (f / faceVolume) for a computed flux f and
\* unitOuterNormal * J for the flux density J of a Neumann face
ContributionVector(c, i, contribution) ==
    IF contribution.kind = "flux"
    THEN Scale(centerUnitOuterNormal(Intersection(c, i)),
               QDiv(contribution.f, faceVolume(Intersection(c, i))))
    ELSE Scale(centerUnitOuterNormal(Intersection(c, i)), contribution.f)

RECURSIVE SumOfContributions(_, _, _)
SumOfContributions(c, i, contributions) ==
    IF contributions = << >> THEN ZeroVelocity
    ELSE VAdd(ContributionVector(c, i, contributions[1]),
              SumOfContributions(c, i, Tail(contributions)))

\* the loop over the cells has reached the faces of cell c
Entered(c) ==
    /\ calc.pc \in {"element", "intersection", "check", "done"}
    /\ \/ c < calc.eIt
       \/ c = calc.eIt /\ calc.pc # "element"

\* C16: every half-face flux f computed for a face is added to the entry
\* of the processed cell for the face as unitOuterNormal * (f / faceVolume)
\* and never assigned over it: at every point of the pass the entry of a
\* face of a cell that has been entered is the sum of the contributions
\* made so far (the entries are zeroed when the cell is entered), the
\* entries of the other cells are as found, and after the pass every
\* interior face and every Dirichlet face has the contributions of its two
\* corners, every Neumann face the prescribed flux density.
C16_VelocityAccumulates ==
    calc.pc \in {"element", "intersection", "check", "done"}
        => \A c \in GridCells : \A i \in 0..3 :
             /\ Entered(c)
                  => velocity[c][i]
                        = SumOfContributions(c, i, fluxLog[c][i])
             /\ ~Entered(c)
                  => /\ velocity[c][i] = VelocityAtEntry(calc.problem)[c][i]
                     /\ fluxLog[c][i] = << >>
             /\ calc.pc = "done"
                  => IF boundary(Intersection(c, i))
                        /\ isNeumannPress(boundaryTypes(calc.problem,
                                                        Intersection(c, i)))
                     THEN /\ Len(fluxLog[c][i]) = 1
                          /\ fluxLog[c][i][1].kind = "neumann"
                     ELSE /\ Len(fluxLog[c][i]) = 2
                          /\ fluxLog[c][i][1].kind = "flux"
                          /\ fluxLog[c][i][2].kind = "flux"
                          /\ fluxLog[c][i][1].corner
                                # fluxLog[c][i][2].corner

\* after a pass that found old values in the velocity field, a face with
\* two different contributions, none of them zero
C16_Witness ==
    /\ calc.pc = "done"
    /\ calc.problem.initialVelocity = 1
    /\ calc.problem.medium = 2
    /\ Len(fluxLog[3][0]) = 2
    /\ fluxLog[3][0][1].f # QZero
    /\ fluxLog[3][0][2].f # QZero
    /\ fluxLog[3][0][1].f # fluxLog[3][0][2].f
    /\ velocity[3][0] # ZeroVelocity

\* "neumann" or "dirichlet": the pressure condition on a boundary face
ConditionOn(P, is) ==
    IF isNeumannPress(boundaryTypes(P, is)) THEN "neumann"
    ELSE IF isDirichletPress(boundaryTypes(P, is)) THEN "dirichlet"
         ELSE "other"

\* the code paths of the two mixed positions
MixedPaths ==
    {"interior-neumann-neumann", "interior-neumann-dirichlet",
     "interior-dirichlet-neumann", "interior-dirichlet-dirichlet",
     "neumann-interior-neumann", "neumann-interior-dirichlet",
     "dirichlet-interior-neumann", "dirichlet-interior-dirichlet"}

BothBoundaryPaths ==
    {"neumann-boundary-dirichlet", "neumann-boundary-other",
     "dirichlet-boundary-dirichlet", "dirichlet-boundary-neumann"}

\* the topology cases the path taken for the last pair belongs to
TopologyCasesTaken ==
    LET path == calc.last.fluxes.path
    IN  {k \in {"interior-interior", "interior-boundary",
                "boundary-interior", "boundary-boundary"} :
           \/ k = "interior-interior" /\ path = "interior-interior"
           \/ k = "interior-boundary"
                 /\ path \in {"interior-neumann-neumann",
                              "interior-neumann-dirichlet",
                              "interior-dirichlet-neumann",
                              "interior-dirichlet-dirichlet"}
           \/ k = "boundary-interior"
                 /\ path \in {"neumann-interior-neumann",
                              "neumann-interior-dirichlet",
                              "dirichlet-interior-neumann",
                              "dirichlet-interior-dirichlet"}
           \/ k = "boundary-boundary" /\ path \in BothBoundaryPaths}

\* the topology of the last pair
TopologyOf(isIt, nextisIt) ==
    IF neighbor(isIt)
    THEN IF neighbor(nextisIt) THEN "interior-interior"
         ELSE "interior-boundary"
    ELSE IF neighbor(nextisIt) THEN "boundary-interior"
         ELSE "boundary-boundary"

\* the paths that gave a flux to some face, as the log of a call has them
PathsLogged ==
    UNION {{fluxLog[c][i][k].path : k \in DOMAIN fluxLog[c][i]} :
              c \in GridCells, i \in 0..3}

\* C17: for every pair (isIt, nextisIt) the path taken belongs to exactly
\* one topology case, the one of the pair; with isIt interior and nextisIt
\* on the boundary the path is the one of the conditions on nextisIt and
\* on isIt24, with isIt on the boundary and nextisIt interior the one of
\* the conditions on isIt and on isIt34, a different path for each of the
\* four combinations of Neumann and Dirichlet, and each of these paths
\* gives a half-face flux to the velocity of the processed cell.
C17_OneCasePerPair ==
    (calc.pc \in {"intersection", "check"} /\ "last" \in DOMAIN calc)
        => LET P == calc.problem
               isIt == calc.last.isIt
               nextisIt == calc.last.nextisIt
               r == calc.last.fluxes
               topology == TopologyOf(isIt, nextisIt)
           IN  /\ TopologyCasesTaken = {topology}
               /\ topology = "interior-interior"
                     => r.onIsIt # << >> /\ r.onNextisIt # << >>
               /\ topology = "interior-boundary"
                     => /\ r.path
                            = "interior-" \o ConditionOn(P, nextisIt)
                                 \o "-"
                                 \o ConditionOn(P,
                                       BoundaryFace(P, isIt, isIt,
                                                    nextisIt))
                        /\ r.onIsIt # << >>
               /\ topology = "boundary-interior"
                     => /\ r.path
                            = ConditionOn(P, isIt) \o "-interior-"
                                 \o ConditionOn(P,
                                       BoundaryFace(P, nextisIt, isIt,
                                                    nextisIt))
                        /\ r.onNextisIt # << >>
               /\ (r.onIsIt # << >> \/ r.onNextisIt # << >>)
                     => r.path \in PathsLogged

\* a call in which all eight paths of the two mixed positions were taken
C17_Witness ==
    /\ calc.pc = "done"
    /\ MixedPaths \subseteq PathsLogged

----------------------------------------------------------------------------
(* BlackOilProblem: timeIntegration and shouldWriteRestartFile             *)

\* the largest value of the parameter MaxTimeStepDivisions
MaxDivisions == 3
\* the largest time step size (in seconds) the simulator proposes
MaxDt == 4
\* the index of the last time step of a simulation
MaxTimeStepIndex == 21
\* shouldWriteRestartFile: one restart file every 10 time steps
RestartInterval == 10

\* a < b on Scalars
QLess(a, b) == a.d # 0 /\ b.d # 0 /\ a.n * b.d < b.n * a.d

\* EWOMS_GET_PARAM(TypeTag, unsigned, MaxTimeStepDivisions)
DivisionLimits == 0..MaxDivisions

\* EWOMS_GET_PARAM(TypeTag, Scalar, MinTimeStepSize)
MinTimeStepSizes == {Q(1, 4), QInt(1), QInt(3)}

\* simulator().timeStepSize() at the beginning of a time step
StepSizes == {QInt(n) : n \in 1..MaxDt}

\* simulator().setTimeStepSize(dt)
setTimeStepSize(sim, dt) == [sim EXCEPT !.timeStepSize = dt]

\* lines 230-238: the time step size with which the first attempt is made
ClampTimeStepSize(sim, minTimeStepSize) ==
    IF /\ QLess(sim.timeStepSize, minTimeStepSize)
       /\ ~sim.episodeWillBeOver
       /\ ~sim.willBeFinished
    THEN setTimeStepSize(sim, minTimeStepSize)
    ELSE sim

\* lines 225-238: timeIntegration is called
BeginTimeIntegration(maxFails, minTimeStepSize) ==
    /\ timeInt.pc = "idle"
    /\ simulator' = ClampTimeStepSize(simulator, minTimeStepSize)
    /\ timeInt' = [pc |-> "loop", maxFails |-> maxFails,
                   minTimeStepSize |-> minTimeStepSize, i |-> 0,
                   updates |-> << >>, divisions |-> 0,
                   dtAtEntry |-> simulator.timeStepSize]
    /\ restart' = [asked |-> FALSE]

\* a converged update taken for a failed one while other attempts are left
ConvergedRetries(ti, sim) ==
    [timeInt |-> [ti EXCEPT !.pc = IF ti.i + 1 < ti.maxFails THEN "loop"
                                   ELSE "returned",
                            !.i = IF ti.i + 1 < ti.maxFails THEN @ + 1
                                  ELSE @,
                            !.updates = Append(@, TRUE)],
     simulator |-> sim]

\* lines 241-248: what a pass of the loop whose update converged does
ConvergedReturns(ti, sim) ==
    [timeInt |-> [ti EXCEPT !.pc = "returned",
                            !.updates = Append(@, TRUE)],
     simulator |-> sim]

\* every failed update halves the time step size, whatever the minimum
FailedHalvesAlways(ti, sim) ==
    [timeInt |-> [ti EXCEPT !.updates = Append(@, FALSE),
                            !.i = @ + 1, !.divisions = @ + 1],
     simulator |-> setTimeStepSize(sim, sim.timeStepSize // QInt(2))]

\* a failed update that halves the time step size without the ++i of the
\* loop
FailedHalvesUncounted(ti, sim) ==
    LET dt == sim.timeStepSize
        nextDt == dt // QInt(2)
    IN  IF QLess(nextDt, ti.minTimeStepSize)
        THEN [timeInt |-> [ti EXCEPT !.pc = "break",
                                     !.updates = Append(@, FALSE)],
              simulator |-> sim]
        ELSE [timeInt |-> [ti EXCEPT !.updates = Append(@, FALSE),
                                     !.divisions = @ + 1],
              simulator |-> setTimeStepSize(sim, nextDt)]

\* lines 250-263: what a pass whose update did not converge does, with
\* nextDt = dt / 2
FailedHalves(ti, sim) ==
    LET dt == sim.timeStepSize
        nextDt == dt // QInt(2)
    IN  IF QLess(nextDt, ti.minTimeStepSize)
        THEN [timeInt |-> [ti EXCEPT !.pc = "break",
                                     !.updates = Append(@, FALSE)],
              simulator |-> sim]
        ELSE [timeInt |-> [ti EXCEPT !.updates = Append(@, FALSE),
                                     !.i = @ + 1, !.divisions = @ + 1],
              simulator |-> setTimeStepSize(sim, nextDt)]

\* lines 240-265: one pass of the loop; converged is what
\* model().update(newtonMethod()) returns
Update(converged) ==
    /\ timeInt.pc = "loop"
    /\ timeInt.i < timeInt.maxFails
    /\ \E after \in {IF converged THEN ConvergedReturns(timeInt, simulator)
                     ELSE FailedHalves(timeInt, simulator)} :
          /\ timeInt' = after.timeInt
          /\ simulator' = after.simulator
    /\ UNCHANGED restart

\* lines 267-271: the loop is left without a converged update
ThrowRuntimeError ==
    /\ \/ timeInt.pc = "loop" /\ timeInt.i >= timeInt.maxFails
       \/ timeInt.pc = "break"
    /\ timeInt' = [pc |-> "thrown", maxFails |-> timeInt.maxFails,
                   minTimeStepSize |-> timeInt.minTimeStepSize,
                   i |-> timeInt.i, updates |-> timeInt.updates,
                   divisions |-> timeInt.divisions,
                   dtAtEntry |-> timeInt.dtAtEntry,
                   exception |-> "std::runtime_error",
                   reportedDivisions |-> timeInt.maxFails,
                   reportedDt |-> simulator.timeStepSize]
    /\ UNCHANGED << simulator, restart >>

\* the simulator after timeIntegration has returned: the next time step
\* begins with a new size
EndTimeStep(dt, episodeWillBeOver, willBeFinished) ==
    /\ timeInt.pc = "returned"
    /\ simulator.timeStepIndex < MaxTimeStepIndex
    /\ simulator' = [timeStepSize |-> dt,
                     timeStepIndex |-> simulator.timeStepIndex + 1,
                     episodeWillBeOver |-> episodeWillBeOver,
                     willBeFinished |-> willBeFinished]
    /\ timeInt' = [pc |-> "idle"]
    /\ UNCHANGED restart

\* true at every multiple of the interval, zero included
shouldWriteRestartFileAtZero(sim) ==
    sim.timeStepIndex % RestartInterval = 0

\* lines 293-297
shouldWriteRestartFile(sim) ==
    sim.timeStepIndex > 0 /\ sim.timeStepIndex % RestartInterval = 0

\* the simulator asks whether a restart file is to be written
ShouldWriteRestartFile ==
    /\ timeInt.pc = "idle"
    /\ ~restart.asked
    /\ restart' = [asked |-> TRUE,
                   timeStepIndex |-> simulator.timeStepIndex,
                   answer |-> shouldWriteRestartFile(simulator)]
    /\ UNCHANGED << simulator, timeInt >>

NextTime ==
    \/ \E maxFails \in DivisionLimits, minTimeStepSize \in MinTimeStepSizes :
          BeginTimeIntegration(maxFails, minTimeStepSize)
    \/ \E converged \in BOOLEAN : Update(converged)
    \/ ThrowRuntimeError
    \/ \E dt \in StepSizes, episodeWillBeOver \in BOOLEAN,
          willBeFinished \in BOOLEAN :
          EndTimeStep(dt, episodeWillBeOver, willBeFinished)
    \/ ShouldWriteRestartFile

SpecTime ==
    Init /\ [][/\ NextTime
               /\ UNCHANGED << residualVars, velocityVars, restartVars,
                               assembleVars >>]_vars

----------------------------------------------------------------------------
(* Properties of timeIntegration and shouldWriteRestartFile                *)

\* no update of the call has converged
NoneConverged(ti) == \A k \in 1..Len(ti.updates) : ~ti.updates[k]

\* C18: timeIntegration returns normally exactly when an update converged:
\* it returns in the pass of the first converged update and leaves the
\* time step size of that attempt as it is; as long as the call goes on
\* no update has converged; and when the loop is left without a converged
\* update (all attempts used, or the time step size cannot be halved) the
\* call ends with std::runtime_error.
C18_ReturnsIffConverged ==
    [][/\ (timeInt.pc = "loop" /\ timeInt'.pc = "returned")
            => /\ timeInt'.updates = Append(timeInt.updates, TRUE)
               /\ NoneConverged(timeInt)
               /\ simulator' = simulator
       /\ (timeInt.pc = "loop" /\ timeInt'.pc \in {"loop", "break"})
            => NoneConverged(timeInt')
       /\ (timeInt.pc = "loop" /\ timeInt.i < timeInt.maxFails)
            => timeInt'.pc \in {"loop", "break", "returned"}
       /\ (timeInt.pc = "break"
             \/ (timeInt.pc = "loop" /\ timeInt.i >= timeInt.maxFails))
            => /\ timeInt'.pc = "thrown"
               /\ timeInt'.exception = "std::runtime_error"
               /\ NoneConverged(timeInt')
       /\ timeInt'.pc = "thrown"
            => timeInt.pc \in {"loop", "break"}
       /\ timeInt'.pc = "returned" => timeInt.pc = "loop"]_vars

\* a call that returned after two failed attempts, with the time step
\* size halved twice
C18_Witness ==
    /\ timeInt.pc = "returned"
    /\ timeInt.updates = << FALSE, FALSE, TRUE >>
    /\ timeInt.divisions = 2
    /\ simulator.timeStepSize = timeInt.dtAtEntry // QInt(4)

\* C19: when timeIntegration throws, its message reports maxFails
\* time-step divisions, and that many halvings of the time step size have
\* been performed.
C19_FailsAfterAllDivisions ==
    timeInt.pc = "thrown"
        => /\ timeInt.reportedDivisions = timeInt.maxFails
           /\ timeInt.divisions = timeInt.reportedDivisions

\* C20: shouldWriteRestartFile answers true exactly when the time step
\* index is positive and a multiple of 10.
C20_RestartEveryTenSteps ==
    restart.asked
        => (restart.answer
              <=> \E k \in 1..MaxTimeStepIndex :
                     restart.timeStepIndex = 10 * k)

\* the answers at the twentieth time step
C20_Witness ==
    /\ restart.asked
    /\ restart.timeStepIndex = 20
    /\ restart.answer

----------------------------------------------------------------------------
(* The order of the passes of eval                                         *)

\* the positions of a pass in the history of the last call
PassPositions(pass) == {k \in 1..Len(log) : log[k].pass = pass}

\* C23: eval runs the flux pass first and the volume-term pass second, then
\* the Neumann pass exactly when the boundary types have a Neumann
\* condition, then the Dirichlet pass exactly when they have a Dirichlet
\* condition; each pass runs at most once, the Neumann pass comes before
\* the Dirichlet pass, and no pass runs after the Dirichlet pass, whose
\* result is the residual the call leaves.
C23_PassOrder ==
    lastCall.kind = "eval" =>
        /\ Len(log) >= 2
        /\ PassPositions("evalFluxes_") = {1}
        /\ PassPositions("evalVolumeTerms_") = {2}
        /\ PassPositions("evalStorage_") = {}
        /\ PassPositions("evalNeumann_") =
               (IF hasNeumann(bcTypes_(Ptrs)) THEN {3} ELSE {})
        /\ PassPositions("evalDirichlet_") =
               (IF hasDirichlet(bcTypes_(Ptrs)) THEN {Len(log)} ELSE {})
        /\ Len(log) = 2 + Cardinality(PassPositions("evalNeumann_"))
                        + Cardinality(PassPositions("evalDirichlet_"))
        /\ residual_ = log[Len(log)].res

\* an eval on a cell with Neumann and Dirichlet conditions, whose Neumann
\* and Dirichlet passes both changed the residual
C23_Witness ==
    /\ lastCall.kind = "eval"
    /\ hasNeumann(bcTypes_(Ptrs))
    /\ hasDirichlet(bcTypes_(Ptrs))
    /\ Len(log) = 4
    /\ log[3].res # log[2].res
    /\ log[4].res # log[3].res

----------------------------------------------------------------------------
(* The null previous-solution pointer of evalStorage and evalFluxes        *)

\* the values of isOldSol a pass calls asImp_().computeStorage with
StorageRequests(pass) ==
    CASE pass = "evalStorage_" -> {FALSE}
      [] pass = "evalVolumeTerms_" -> {FALSE, TRUE}
      [] OTHER -> {}

\* C30: evalStorage and evalFluxes leave prevVolVarsPtr_ null, and no pass
\* they run asks computeStorage for the storage of the previous time step:
\* the storage pass of evalStorage asks for the current storage only, which
\* is what the residual then holds.  A pass that does ask for the previous
\* storage has only run in a call that assigned the pointer an address.
C30_NoOldStorageWhileNull ==
    /\ lastCall.kind \in {"evalStorage", "evalFluxes"} =>
           /\ prevVolVarsPtr_ = Null
           /\ \A k \in 1..Len(log) : TRUE \notin StorageRequests(log[k].pass)
    /\ lastCall.kind = "evalStorage" =>
           /\ \E k \in 1..Len(log) : FALSE \in StorageRequests(log[k].pass)
           /\ \A i \in 1..fvElemGeom_(Ptrs).numVertices :
                  residual_[i] =
                      VecScale(curVolVars_(Ptrs)[i].storage,
                               fvElemGeom_(Ptrs).subContVol[i].volume)
    /\ (\E k \in 1..Len(log) : TRUE \in StorageRequests(log[k].pass)) =>
           prevVolVarsPtr_.st \notin {"null", "uninit"}

\* an evalStorage that followed another call and left storage in the
\* residual while the previous-solution pointer is null
C30_Witness ==
    /\ lastCall.kind = "evalStorage"
    /\ lastCall.sizeAtEntry > 0
    /\ prevVolVarsPtr_.st = "null"
    /\ curVolVarsPtr_.st = "dangling"
    /\ \E i \in 1..Len(residual_) : residual_[i] # ZeroVec

----------------------------------------------------------------------------
(* The entries of the velocity field a cell's pass touches                 *)

\* the cell calculateVelocity is processing
Processing == calc.pc \in {"element", "intersection", "check"}

\* the cell whose pass of the loop over the cells has just ended
JustFinished ==
    IF calc.pc = "done" THEN {calc.eIt}
    ELSE IF calc.pc = "element" /\ calc.eIt > 0 THEN {calc.eIt - 1}
         ELSE {}

\* the velocity field after the pass of cell c alone, run on field vel
CellPass(vel, P, c) ==
    LET its == IntersectionsOfCell(P.gridImplementation, c)
        next(pos) == its[nextisItPosition(P.gridImplementation, pos)]
        pair(v, pos) ==
            ApplyRegion(v, c, its[pos], next(pos),
                        RegionFluxes(P, c, its[pos], next(pos)))
    IN  pair(pair(pair(pair(ResetVelocity(vel, c), 1), 2), 3), 4)

\* a velocity field no call leaves
OtherField == [c \in GridCells |-> [i \in 0..3 |-> QVec(0 - 2, 3)]]

\* every step of the pass of cell c leaves the velocities and the
\* potentials of the other cells as they were
WritesOnlyOwnCell ==
    Processing =>
        \A c \in GridCells \ {calc.eIt} :
            /\ velocity'[c] = velocity[c]
            /\ potential'[c] = potential[c]

\* when the pass of cell c ends, the entries of c are those the pass of c
\* alone computes from the problem data, on whatever field it runs
CellResultOwnData ==
    \A c \in JustFinished :
        /\ velocity[c] = CellPass(OtherField, calc.problem, c)[c]
        /\ \A i \in 0..3 :
               potential[c][i] =
                   Dot(velocity[c][i],
                       centerUnitOuterNormal(Intersection(c, i)))

\* a second call on the field the first call left changes no entry
SecondCallSameField ==
    calc.pc = "done" =>
        \A c \in GridCells :
            CellPass(velocity, calc.problem, c) = velocity

\* C24: while cell c is processed only the velocity and potential entries
\* of c change; what the pass leaves in them is computed from the problem
\* data of c alone, whatever the field holds in the other cells and held
\* in c at entry, so the field does not depend on the order of the cells;
\* and running calculateVelocity again on the field it left, with the same
\* problem data, leaves the same field.
C24_CellLocalWrites ==
    /\ [][WritesOnlyOwnCell]_vars
    /\ [](CellResultOwnData /\ SecondCallSameField)

\* a finished call that found a field of non-zero velocities and left
\* different non-zero velocities in two cells
C24_Witness ==
    /\ calc.pc = "done"
    /\ calc.problem.initialVelocity = 1
    /\ velocity[0] # velocity[3]
    /\ velocity[0] # [i \in 0..3 |-> ZeroVelocity]
    /\ velocity[3] # [i \in 0..3 |-> ZeroVelocity]
    /\ potential[0] # potential[3]

----------------------------------------------------------------------------
(* The velocity on Neumann boundary faces                                  *)

\* the cells whose loop over the faces is complete
CompletedCells ==
    IF calc.pc = "done" THEN GridCells
    ELSE IF calc.pc = "check" THEN {c \in GridCells : c <= calc.eIt}
         ELSE IF Processing THEN {c \in GridCells : c < calc.eIt}
              ELSE {}

\* a boundary face with a Neumann condition for the pressure equation
NeumannFace(P, is) ==
    boundary(is) /\ isNeumannPress(boundaryTypes(P, is))

\* neumann[w] / densityW + neumann[n] / densityNW on face is of cell c
NeumannJ(P, c, is) ==
    QAdd(QDiv(problemNeumannOf(P, is).w, densityWetting(P, c)),
         QDiv(problemNeumannOf(P, is).n, densityNonwetting(P, c)))

\* C25: a Neumann boundary face of a cell whose faces were all processed
\* holds exactly one contribution, the Neumann one, of value J =
\* neumann[w] / densityW + neumann[n] / densityNW; its velocity is
\* unitOuterNormal * J and its normal velocity is J.  The pair that has the
\* face as isIt writes that contribution and no half-face flux to it, and a
\* pair that has a Neumann face as nextisIt writes nothing to it.
C25_NeumannFaceVelocity ==
    /\ \A c \in CompletedCells : \A i \in 0..3 :
           NeumannFace(calc.problem, Intersection(c, i)) =>
               /\ Len(fluxLog[c][i]) = 1
               /\ fluxLog[c][i][1].kind = "neumann"
               /\ fluxLog[c][i][1].f
                      = NeumannJ(calc.problem, c, Intersection(c, i))
               /\ velocity[c][i]
                      = Scale(centerUnitOuterNormal(Intersection(c, i)),
                              NeumannJ(calc.problem, c, Intersection(c, i)))
               /\ Dot(velocity[c][i],
                      centerUnitOuterNormal(Intersection(c, i)))
                      = NeumannJ(calc.problem, c, Intersection(c, i))
    /\ (Processing /\ "last" \in DOMAIN calc) =>
           /\ NeumannFace(calc.problem, calc.last.isIt) =>
                  /\ calc.last.fluxes.onIsItNeumann =
                         << NeumannJ(calc.problem, calc.eIt,
                                     calc.last.isIt) >>
                  /\ calc.last.fluxes.onIsIt = << >>
           /\ ~NeumannFace(calc.problem, calc.last.isIt) =>
                  calc.last.fluxes.onIsItNeumann = << >>
           /\ NeumannFace(calc.problem, calc.last.nextisIt) =>
                  calc.last.fluxes.onNextisIt = << >>

\* a finished call with a Neumann face of non-zero J next to a Dirichlet
\* face of the same cell that received two half-face fluxes
C25_Witness ==
    /\ calc.pc = "done"
    /\ calc.problem.initialVelocity = 1
    /\ \E c \in GridCells : \E i, j \in 0..3 :
           /\ NeumannFace(calc.problem, Intersection(c, i))
           /\ NeumannJ(calc.problem, c, Intersection(c, i)) # QZero
           /\ velocity[c][i] # ZeroVelocity
           /\ boundary(Intersection(c, j))
           /\ ~NeumannFace(calc.problem, Intersection(c, j))
           /\ Len(fluxLog[c][j]) = 2
           /\ velocity[c][j] # ZeroVelocity

----------------------------------------------------------------------------
(* The pairs (isIt, nextisIt) of a cell                                    *)

\* the successor rule on positions counted from 0, as ++ counts them
SuccessorOf(gridImplementation, k) ==
    nextisItPosition(gridImplementation, k + 1) - 1

\* the position (from 1) at which the iteration visits face i
PositionOf(gridImplementation, i) ==
    CHOOSE p \in 1..4 : IntersectionOrder(gridImplementation)[p] = i

\* the face that is nextisIt when face i is isIt
NextFaceOf(gridImplementation, c, i) ==
    IntersectionsOfCell(gridImplementation, c)[
        nextisItPosition(gridImplementation,
                         PositionOf(gridImplementation, i))]

\* the faces that are isIt when face i is nextisIt
PreviousFacesOf(gridImplementation, c, i) ==
    {is \in {Intersection(c, j) : j \in 0..3} :
        NextFaceOf(gridImplementation, c, is.indexInInside)
            = Intersection(c, i)}

\* the number of pairs of the cell in progress that were processed
PairsProcessed == IF calc.pc = "check" THEN 4 ELSE calc.isIt - 1

\* C26: on SGrid and YaspGrid the successor rule maps the positions
\* 0->2, 1->3, 2->1, 3->0, on UGGrid k -> k+1 cyclically; the pairs
\* processed are those of the rule, in the order of the positions, so
\* every face is isIt once and nextisIt once; and, the boundary faces being
\* Neumann or Dirichlet for the pressure, every interior or Dirichlet face
\* of a cell whose faces were all processed holds exactly two half-face
\* fluxes, one of the corner it shares with its successor and one of the
\* corner it shares with its predecessor.
C26_TwoHalfFaceFluxes ==
    /\ \A g \in {"sGrid", "yaspGrid"} :
           [k \in 0..3 |-> SuccessorOf(g, k)]
               = (0 :> 2) @@ (1 :> 3) @@ (2 :> 1) @@ (3 :> 0)
    /\ [k \in 0..3 |-> SuccessorOf("ugGrid", k)]
           = [k \in 0..3 |-> (k + 1) % 4]
    /\ (Processing /\ "last" \in DOMAIN calc) =>
           LET g == calc.problem.gridImplementation
               its == IntersectionsOfCell(g, calc.eIt)
           IN  /\ calc.last.isIt = its[PairsProcessed]
               /\ calc.last.nextisIt
                      = its[nextisItPosition(g, PairsProcessed)]
    /\ \A c \in CompletedCells : \A i \in 0..3 :
           LET g == calc.problem.gridImplementation
               is == Intersection(c, i)
           IN  /\ Cardinality(PreviousFacesOf(g, c, i)) = 1
               /\ NextFaceOf(g, c, i) # is
               /\ ~NeumannFace(calc.problem, is) =>
                      /\ Len(fluxLog[c][i]) = 2
                      /\ \A k \in 1..2 : fluxLog[c][i][k].kind = "flux"
                      /\ {fluxLog[c][i][k].corner : k \in 1..2}
                             = {corner1234Of(is, NextFaceOf(g, c, i))}
                                 \cup {corner1234Of(prev, is) :
                                          prev \in PreviousFacesOf(g, c, i)}
                      /\ fluxLog[c][i][1].corner # fluxLog[c][i][2].corner

\* a finished call on an SGrid with Neumann and Dirichlet faces, in which
\* an interior face and a Dirichlet face hold two different non-zero
\* half-face fluxes each
C26_Witness ==
    /\ calc.pc = "done"
    /\ calc.problem.gridImplementation = "sGrid"
    /\ \E c \in GridCells : \E i, j, n \in 0..3 :
           /\ neighbor(Intersection(c, i))
           /\ boundary(Intersection(c, j))
           /\ ~NeumannFace(calc.problem, Intersection(c, j))
           /\ NeumannFace(calc.problem, Intersection(c, n))
           /\ \A f \in {i, j} :
                  /\ Len(fluxLog[c][f]) = 2
                  /\ fluxLog[c][f][1].f # QZero
                  /\ fluxLog[c][f][2].f # QZero
                  /\ fluxLog[c][f][1].f # fluxLog[c][f][2].f

----------------------------------------------------------------------------
(* The time step sizes timeIntegration sets                                *)

\* a step of a call of timeIntegration that changes the time step size
SetsTimeStepSize ==
    /\ timeInt'.pc \in {"loop", "break", "returned", "thrown"}
    /\ simulator'.timeStepSize # simulator.timeStepSize

\* C27: a call of timeIntegration never sets a time step size below
\* MinTimeStepSize.  The adjustment at entry changes the size only when it
\* is below the minimum (and neither the episode nor the simulation is
\* about to end), and then to exactly the minimum; a pass of the loop
\* changes it only after a failed update, to exactly half of the size that
\* update was tried with, and only if that half is not below the minimum;
\* when the half is below the minimum the loop is left with the size
\* unchanged, and the throw changes nothing.
C27_NeverBelowMinimum ==
    [][/\ SetsTimeStepSize =>
              ~QLess(simulator'.timeStepSize, timeInt'.minTimeStepSize)
       /\ (SetsTimeStepSize /\ timeInt.pc = "idle") =>
              /\ simulator'.timeStepSize = timeInt'.minTimeStepSize
              /\ QLess(simulator.timeStepSize, timeInt'.minTimeStepSize)
              /\ ~simulator.episodeWillBeOver
              /\ ~simulator.willBeFinished
       /\ (SetsTimeStepSize /\ timeInt.pc # "idle") =>
              /\ timeInt.pc = "loop" /\ timeInt'.pc = "loop"
              /\ timeInt'.updates = Append(timeInt.updates, FALSE)
              /\ QMul(simulator'.timeStepSize, QInt(2))
                     = simulator.timeStepSize
       /\ (timeInt.pc = "loop" /\ timeInt'.pc = "break") =>
              /\ simulator'.timeStepSize = simulator.timeStepSize
              /\ QLess(QDiv(simulator.timeStepSize, QInt(2)),
                       timeInt.minTimeStepSize)
       /\ (timeInt.pc = "loop" /\ timeInt'.pc = "loop") =>
              /\ SetsTimeStepSize
              /\ timeInt'.minTimeStepSize = timeInt.minTimeStepSize
       /\ timeInt'.pc \in {"returned", "thrown"} =>
              simulator'.timeStepSize = simulator.timeStepSize]_vars

\* a call that halved the time step size once, down to the minimum, and
\* gave up at the next failed update with the size as it was
C27_Witness ==
    /\ timeInt.pc = "break"
    /\ timeInt.updates = << FALSE, FALSE >>
    /\ timeInt.divisions = 1
    /\ QMul(simulator.timeStepSize, QInt(2)) = timeInt.dtAtEntry
    /\ simulator.timeStepSize = timeInt.minTimeStepSize

----------------------------------------------------------------------------
(* Termination of timeIntegration                                          *)

\* a statement of a call of timeIntegration in progress
TimeIntegrationStep ==
    /\ \/ \E converged \in BOOLEAN : Update(converged)
       \/ ThrowRuntimeError
    /\ UNCHANGED << residualVars, velocityVars, restartVars, assembleVars >>

\* timeIntegration is sequential code: once it is called, its next
\* statement is executed, every call of model().update being assumed to
\* return
SpecTimeFair == SpecTime /\ WF_vars(TimeIntegrationStep)

\* the call of timeIntegration is in progress
InTimeIntegration == timeInt.pc \in {"loop", "break"}

\* the call of timeIntegration has ended, by return or by exception
TimeIntegrationEnded == timeInt.pc \in {"returned", "thrown"}

\* C28: every call of timeIntegration ends, by return or by exception; it
\* makes at most MaxTimeStepDivisions calls of model().update, and with
\* MaxTimeStepDivisions = 0 its first step is the throw, no update having
\* been called.
C28_Terminates ==
    /\ InTimeIntegration ~> TimeIntegrationEnded
    /\ [](timeInt.pc # "idle" =>
              Len(timeInt.updates) <= timeInt.maxFails)
    /\ []((timeInt.pc = "thrown" /\ timeInt.maxFails = 0) =>
              timeInt.updates = << >>)
    /\ [][(timeInt.pc = "loop" /\ timeInt.maxFails = 0) =>
              timeInt'.pc = "thrown"]_vars

\* a call with three divisions allowed that used its three updates and
\* ended with the exception
C28_Witness ==
    /\ timeInt.pc = "thrown"
    /\ timeInt.maxFails = 3
    /\ timeInt.updates = << FALSE, FALSE, FALSE >>
    /\ timeInt.i = 3

----------------------------------------------------------------------------
(* BlackOilProblem: serialize and restart                                  *)

PartStates == 0..MaxPartState

ComponentNames == {"simulator", "defaultVtkWriter_", "model"}

\* Ewoms::Restart is a stream: what is written first is read first.  A
\* Restarter res has the sections of its file, the number of sections
\* read, the calls made on it and, for every section read, who read it.

\* res.serializeBegin(simulator_): a new file, named after the time
serializeBegin(sim) ==
    [time |-> sim, file |-> << >>, pos |-> 0,
     calls |-> << "serializeBegin" >>, read |-> << >>]

\* res.serializeEnd()
serializeEnd(res) == [res EXCEPT !.calls = Append(@, "serializeEnd")]

\* res.deserializeBegin(simulator_, tRestart): the file of time tRestart
deserializeBegin(files, tRestart) ==
    [time |-> tRestart, file |-> files[tRestart], pos |-> 0,
     calls |-> << "deserializeBegin" >>, read |-> << >>]

\* res.deserializeEnd()
deserializeEnd(io) ==
    [io EXCEPT !.res.calls = Append(@, "deserializeEnd")]

\* simulator().serialize(res), defaultVtkWriter_.serialize(res),
\* model().serialize(res): the component appends its state to the file
ComponentSerialize(res, name, state) ==
    [res EXCEPT !.file = Append(@, [section |-> name, data |-> state]),
                !.calls = Append(@, name \o ".serialize")]

\* simulator().deserialize(res) and the like: the component takes its
\* state from the next section of the file, whoever wrote it
ComponentDeserialize(io, name) ==
    LET next == io.res.file[io.res.pos + 1]
    IN  [res |-> [io.res EXCEPT
                     !.pos = @ + 1,
                     !.calls = Append(@, name \o ".deserialize"),
                     !.read = Append(@, [by |-> name,
                                         section |-> next.section])],
         parts |-> [io.parts EXCEPT ![name] = next.data]]

\* serialize(Restarter &res)
serializeTo(res, p) ==
    ComponentSerialize(
        ComponentSerialize(res, "defaultVtkWriter_", p.defaultVtkWriter_),
        "model", p.model)

\* serialize()
serialize(p) ==
    serializeEnd(
        serializeTo(
            ComponentSerialize(serializeBegin(p.simulator), "simulator",
                               p.simulator),
            p))

\* deserialize(res) with the model read before the VTK writer
deserializeModelFirst(io) ==
    ComponentDeserialize(ComponentDeserialize(io, "model"),
                         "defaultVtkWriter_")

\* deserialize(Restarter &res)
deserializeFrom(io) ==
    ComponentDeserialize(ComponentDeserialize(io, "defaultVtkWriter_"),
                         "model")

\* restart(tRestart), on the components p and the files of the disk
restartAt(files, tRestart, p) ==
    deserializeEnd(
        deserializeFrom(
            ComponentDeserialize(
                [res |-> deserializeBegin(files, tRestart), parts |-> p],
                "simulator")))

\* the problem writes a restart file
Serialize ==
    \E res \in {serialize(parts)} :
        /\ disk' = [disk EXCEPT ![res.time] = res.file]
        /\ ioLog' = [op |-> "serialize", time |-> res.time,
                     calls |-> res.calls]
        /\ UNCHANGED parts

\* the problem is restarted from the file written at time tRestart
Restart(tRestart) ==
    /\ disk[tRestart] # << >>
    /\ \E io \in {restartAt(disk, tRestart, parts)} :
          /\ parts' = io.parts
          /\ ioLog' = [op |-> "restart", time |-> tRestart,
                       calls |-> io.res.calls, read |-> io.res.read,
                       pos |-> io.res.pos, before |-> parts]
    /\ UNCHANGED disk

\* the simulation goes on: a component changes its state
AdvanceSimulation(name, state) ==
    /\ parts[name] # state
    /\ parts' = [parts EXCEPT ![name] = state]
    /\ ioLog' = [op |-> "advance"]
    /\ UNCHANGED disk

NextRestart ==
    \/ Serialize
    \/ \E tRestart \in PartStates : Restart(tRestart)
    \/ \E name \in ComponentNames, state \in PartStates :
          AdvanceSimulation(name, state)

SpecRestart ==
    Init /\ [][/\ NextRestart
               /\ UNCHANGED << residualVars, velocityVars, timeVars,
                               assembleVars >>]_vars

\* C21: serialize calls serializeBegin, the serialize of the simulator, of
\* the VTK writer and of the model, and serializeEnd, once each and in
\* this order; restart calls deserializeBegin, the deserialize of the same
\* three components in the same order, and deserializeEnd, once each; every
\* component reads the section it wrote itself and the file is read to its
\* end.  Restarting from a file restores the state every component had
\* when the file was written, whatever the state before the restart.
C21_RestartInvertsSerialize ==
    /\ ioLog.op = "serialize" =>
           /\ ioLog.calls =
                  << "serializeBegin", "simulator.serialize",
                     "defaultVtkWriter_.serialize", "model.serialize",
                     "serializeEnd" >>
           /\ ioLog.time = parts.simulator
           /\ \A p \in [ComponentNames -> PartStates] :
                  restartAt(disk, ioLog.time, p).parts = parts
    /\ ioLog.op = "restart" =>
           /\ ioLog.calls =
                  << "deserializeBegin", "simulator.deserialize",
                     "defaultVtkWriter_.deserialize", "model.deserialize",
                     "deserializeEnd" >>
           /\ ioLog.read =
                  << [by |-> "simulator", section |-> "simulator"],
                     [by |-> "defaultVtkWriter_",
                      section |-> "defaultVtkWriter_"],
                     [by |-> "model", section |-> "model"] >>
           /\ ioLog.pos = Len(disk[ioLog.time])
           /\ serialize(parts).file = disk[ioLog.time]
           /\ parts.simulator = ioLog.time

\* a restart that changed all three components back to the state of a
\* file written earlier, in which the VTK writer and the model differ
C21_Witness ==
    /\ ioLog.op = "restart"
    /\ \A name \in ComponentNames : parts[name] # ioLog.before[name]
    /\ parts.defaultVtkWriter_ # parts.model

----------------------------------------------------------------------------
(* AssemblerPDELab: the Scalars of the Jacobian                            *)

\* The entries of the Jacobian range from far below 1e-14 to far above 1:
\* a Scalar is m * 10^e with an exact mantissa m, which is 0 (then e = 0),
\* not a number, or has 1 <= |m| < 10.
RECURSIVE Dec(_, _)
Dec(m, e) ==
    IF m.d = 0 \/ m.n = 0 THEN [m |-> m, e |-> 0]
    ELSE IF ~QLess(QAbs(m), QInt(10)) THEN Dec(QDiv(m, QInt(10)), e + 1)
    ELSE IF QLess(QAbs(m), QInt(1)) THEN Dec(QMul(m, QInt(10)), e - 1)
    ELSE [m |-> m, e |-> e]

\* the Scalar n * 10^e
DecInt(n, e) == Dec(QInt(n), e)
DecZero == DecInt(0, 0)
DecOne == DecInt(1, 0)

\* std::abs
DecAbs(a) == [m |-> QAbs(a.m), e |-> a.e]

\* a < b for a >= 0 and b >= 0 (false when one of them is not a number)
DecLess(a, b) ==
    IF a.m.d = 0 \/ b.m.d = 0 \/ b.m.n = 0 THEN FALSE
    ELSE IF a.m.n = 0 THEN TRUE
    ELSE a.e < b.e \/ (a.e = b.e /\ QLess(a.m, b.m))

\* std::max(a, b), which is (a < b) ? b : a
DecMax(a, b) == IF DecLess(a, b) THEN b ELSE a

\* a / b and a * b
DecDiv(a, b) == Dec(QDiv(a.m, b.m), a.e - b.e)
DecMul(a, b) == Dec(QMul(a.m, b.m), a.e + b.e)

RECURSIVE Pow10(_)
Pow10(k) == IF k = 0 THEN 1 ELSE 10 * Pow10(k - 1)

\* a + b
DecAdd(a, b) ==
    LET lo == IF a.e < b.e THEN a.e ELSE b.e
    IN  Dec(QAdd(QMul(a.m, QInt(Pow10(a.e - lo))),
                 QMul(b.m, QInt(Pow10(b.e - lo)))), lo)

----------------------------------------------------------------------------
(* AssemblerPDELab::assemble                                               *)

\* Matrix::block_type::rows and cols
rowsInBlock == 2
colsInBlock == 2

\* the number of block rows of the Jacobian (vertices of the partition)
NumBlockRows == 2

BlockRows == 1..NumBlockRows

\* the 1e-14 of line 128
Threshold == DecInt(1, 0 - 14)

\* What the grid operator assembles for one block row: the diagonal block
\* and the block of every other column.
BlockRowKinds ==
    << \* entries of ordinary size, the largest of a row with either sign
       \* and, in the second row, outside the diagonal block
       [diag |-> << << DecInt(2, 0), DecInt(0 - 4, 0) >>,
                    << DecInt(1, 0), DecInt(3, 0) >> >>,
        off |-> << << DecInt(1, 0), DecZero >>,
                   << DecInt(0 - 8, 0), DecInt(2, 0) >> >>],
       \* a row without an entry in the diagonal block
       [diag |-> << << DecZero, DecZero >>,
                    << DecZero, DecInt(0 - 2, 0) >> >>,
        off |-> << << DecInt(3, 0), DecInt(1, 0) >>,
                   << DecZero, DecZero >> >>],
       \* rows whose entries in the diagonal block are below 1e-14
       [diag |-> << << DecInt(5, 0 - 15), DecZero >>,
                    << DecInt(0 - 5, 0 - 15), DecInt(2, 0 - 15) >> >>,
        off |-> << << DecInt(2, 0), DecZero >>,
                   << DecInt(1, 0), DecInt(1, 0) >> >>],
       \* rows whose largest entry in the diagonal block is 1e-14 and
       \* 2e-14
       [diag |-> << << DecInt(1, 0 - 14), DecInt(5, 0 - 15) >>,
                    << DecZero, DecInt(0 - 2, 0 - 14) >> >>,
        off |-> << << DecInt(2, 0), DecZero >>,
                   << DecZero, DecInt(4, 0 - 14) >> >>],
       \* the identity
       [diag |-> << << DecOne, DecZero >>, << DecZero, DecOne >> >>,
        off |-> << << DecZero, DecZero >>, << DecZero, DecZero >> >>] >>

\* gridOperatorSpace_->jacobian(*u, *matrix_): the Jacobians assembled
Jacobians ==
    {[b \in BlockRows |->
         [c \in BlockRows |->
             IF c = b THEN BlockRowKinds[kind[b]].diag
             ELSE BlockRowKinds[kind[b]].off]] :
        kind \in [BlockRows -> 1..Len(BlockRowKinds)]}

\* gridOperatorSpace_->residual(*u, *f), after set_constrained_dofs
Residuals ==
    {[b \in BlockRows |-> << DecInt(6, 0), DecInt(0 - 3, 0) >>],
     [b \in BlockRows |-> << DecInt(b, 0 - 15), DecZero >>]}

\* gridView().comm(): the run is sequential, or this process shares the
\* vertices of the block rows in shared with one other process, whose
\* diagonalEntries of a shared vertex are neighbourFactor times those of
\* this process
Partitions ==
    {[size |-> 1, shared |-> {}, neighbourFactor |-> 0]}
        \cup {[size |-> 2, shared |-> S, neighbourFactor |-> k] :
                 S \in (SUBSET BlockRows) \ {{}}, k \in {1, 2}}

RECURSIVE MaxAbs(_, _)
\* lines 122-126: the largest of |row[1]|, ..., |row[j]|, from 0
MaxAbs(row, j) ==
    IF j = 0 THEN DecZero
    ELSE DecMax(MaxAbs(row, j - 1), DecAbs(row[j]))

\* the divisor of a row taken from the entry on the main diagonal alone
DiagonalEntryOfMainDiagonal(diagBlock, i) ==
    IF DecLess(DecAbs(diagBlock[i][i]), Threshold) THEN DecOne
    ELSE DecAbs(diagBlock[i][i])

\* lines 122-129: diagonalEntry[i] of the diagonal block diagBlock
DiagonalEntry(diagBlock, i) ==
    IF DecLess(MaxAbs(diagBlock[i], colsInBlock), Threshold) THEN DecOne
    ELSE MaxAbs(diagBlock[i], colsInBlock)

\* Dune::PDELab::AddDataHandle: the entries of the other process are added
\* to those of the vertices shared with it
AddDataHandle(entries, partition) ==
    [b \in BlockRows |->
        IF b \in partition.shared
        THEN [i \in 1..rowsInBlock |->
                 DecAdd(entries[b][i],
                        DecMul(DecInt(partition.neighbourFactor, 0),
                               entries[b][i]))]
        ELSE entries[b]]

\* lines 135-139
communicate(entries, partition) ==
    IF partition.size > 1 THEN AddDataHandle(entries, partition)
    ELSE entries

\* the right-hand side of a block row divided by the divisor of its first
\* row
DividedRhsByFirst(fBlock, divisors) ==
    [i \in 1..rowsInBlock |-> DecDiv(fBlock[i], divisors[1])]

\* lines 143-145: the right-hand side of a block row
DividedRhs(fBlock, divisors) ==
    [i \in 1..rowsInBlock |-> DecDiv(fBlock[i], divisors[i])]

\* lines 148-155: the blocks of a block row
DividedRow(blocks, divisors) ==
    [c \in DOMAIN blocks |->
        [i \in 1..rowsInBlock |->
            [j \in 1..colsInBlock |->
                DecDiv(blocks[c][i][j], divisors[i])]]]

\* lines 89-96 and 110-117: assemble is called
Assemble(J, F, partition) ==
    /\ assembly.pc \in {"idle", "done"}
    /\ matrix_' = J
    /\ rhs' = F
    /\ diagonalEntries' = F
    /\ assembly' = [pc |-> "diagonal", iBlock |-> 1, jacobian |-> J,
                    residual |-> F, partition |-> partition]

\* lines 118-133: one pass of the loop over the block rows
DiagonalOfBlockRow ==
    /\ assembly.pc = "diagonal"
    /\ diagonalEntries' =
           [diagonalEntries EXCEPT
               ![assembly.iBlock] =
                   [i \in 1..rowsInBlock |->
                       DiagonalEntry(
                           matrix_[assembly.iBlock][assembly.iBlock], i)]]
    /\ assembly' =
           IF assembly.iBlock < NumBlockRows
           THEN [assembly EXCEPT !.iBlock = @ + 1]
           ELSE [assembly EXCEPT !.pc = "communicate"]
    /\ UNCHANGED << matrix_, rhs >>

\* lines 135-139
Communicate ==
    /\ assembly.pc = "communicate"
    /\ diagonalEntries' = communicate(diagonalEntries, assembly.partition)
    /\ assembly' = [assembly EXCEPT !.pc = "divide", !.iBlock = 1]
    /\ UNCHANGED << matrix_, rhs >>

\* lines 141-156: one pass of the loop over the block rows
DivideBlockRow ==
    /\ assembly.pc = "divide"
    /\ rhs' = [rhs EXCEPT
                  ![assembly.iBlock] =
                      DividedRhs(@, diagonalEntries[assembly.iBlock])]
    /\ matrix_' = [matrix_ EXCEPT
                      ![assembly.iBlock] =
                          DividedRow(@, diagonalEntries[assembly.iBlock])]
    /\ assembly' =
           IF assembly.iBlock < NumBlockRows
           THEN [assembly EXCEPT !.iBlock = @ + 1]
           ELSE [assembly EXCEPT !.pc = "done"]
    /\ UNCHANGED diagonalEntries

NextAssemble ==
    \/ \E J \in Jacobians, F \in Residuals, partition \in Partitions :
          Assemble(J, F, partition)
    \/ DiagonalOfBlockRow
    \/ Communicate
    \/ DivideBlockRow

SpecAssemble ==
    Init /\ [][/\ NextAssemble
               /\ UNCHANGED << residualVars, velocityVars, timeVars,
                               restartVars >>]_vars

----------------------------------------------------------------------------
(* Properties of AssemblerPDELab::assemble                                 *)

\* x is the largest absolute value of the entries of row
IsLargestAbs(x, row) ==
    /\ \E j \in DOMAIN row : DecAbs(row[j]) = x
    /\ \A j \in DOMAIN row : ~DecLess(x, DecAbs(row[j]))

\* every entry of row is below 1e-14 in absolute value
BelowThreshold(row) ==
    \A j \in DOMAIN row : DecLess(DecAbs(row[j]), Threshold)

\* scalar row i of block row b and its right-hand side are as the grid
\* operator assembled them
RowUnscaled(b, i) ==
    /\ \A c \in BlockRows :
           matrix_[b][c][i] = assembly.jacobian[b][c][i]
    /\ rhs[b][i] = assembly.residual[b][i]

\* row i of the diagonal block of block row b has its largest absolute
\* entry equal to 1, or was below 1e-14 and is left as it was
ScaledToOne(b, i) ==
    IF BelowThreshold(assembly.jacobian[b][b][i])
    THEN RowUnscaled(b, i)
    ELSE IsLargestAbs(DecOne, matrix_[b][b][i])

C29_OneDivisorPerRow ==
    /\ assembly.pc \in {"divide", "done"} =>
           \A b \in BlockRows : \A i \in 1..rowsInBlock :
               /\ diagonalEntries[b][i].m.d # 0
               /\ diagonalEntries[b][i].m.n > 0
               /\ ~DecLess(diagonalEntries[b][i], Threshold)
    /\ \A b \in BlockRows : \A i \in 1..rowsInBlock :
           (\/ assembly.pc = "done"
            \/ assembly.pc = "divide" /\ b < assembly.iBlock) =>
               /\ DecMul(rhs[b][i], diagonalEntries[b][i])
                      = assembly.residual[b][i]
               /\ \A c \in BlockRows : \A j \in 1..colsInBlock :
                      DecMul(matrix_[b][c][i][j], diagonalEntries[b][i])
                          = assembly.jacobian[b][c][i][j]
    /\ \A b \in BlockRows : \A i \in 1..rowsInBlock :
           (assembly.pc = "divide" /\ b >= assembly.iBlock) =>
               RowUnscaled(b, i)

\* a finished assemble in which a row was divided by exactly 1e-14, which
\* took an entry outside the diagonal block from 2 to 2e14, and a
\* right-hand side entry of another block row was divided by 3
C29_Witness ==
    /\ assembly.pc = "done"
    /\ \E b, c \in BlockRows :
           /\ diagonalEntries[b][1] = Threshold
           /\ assembly.jacobian[b][c][1][1] = DecInt(2, 0)
           /\ matrix_[b][c][1][1] = DecInt(2, 14)
    /\ \E b \in BlockRows :
           /\ diagonalEntries[b][2] = DecInt(3, 0)
           /\ assembly.residual[b][2] = DecInt(0 - 3, 0)
           /\ rhs[b][2] = DecInt(0 - 1, 0)

====
